---- MODULE Spec2Model ----
(***************************************************************************)
(* Model of the JABS behavior classifier's pose reader and project layer.  *)
(*                                                                         *)
(*   - PoseEstimationV4 (src/src/pose_estimation/pose_est_v4.py): the      *)
(*     reconstruction of identities from the raw detections of a V4 pose   *)
(*     file, and the accessors over the reconstructed arrays.              *)
(*   - Project (src/src/project/project.py): get_labeled_features, the     *)
(*     constructor over a project directory, the video name checks and    *)
(*     the project metadata.                                               *)
(*                                                                         *)
(* Arrays are functions over 0-based index ranges, as in numpy.            *)
(***************************************************************************)
EXTENDS Integers, Sequences, FiniteSets, TLC

VARIABLES
    file,       \* the HDF5 pose file handed to the reader
    pose,       \* the PoseEstimation object (or the exception of the load)
    entry,      \* the call that produced pose: open_pose_file or the constructor
    result,     \* the outcome of the last accessor call on the pose object
    project,    \* the Project: its videos, their identities and label tracks
    features,   \* the outcome of the last get_labeled_features call
    disk,       \* the project directory: videos, pose files, project file
    runs,       \* the outcomes of the get_labeled_features calls on a project
    caller,     \* the dict a caller got from Project.metadata
    annotations, \* the VideoLabels object a caller of the labeler holds
    widget      \* the MainControlWidget: its controls and attributes

vars ==
    <<file, pose, entry, result, project, features, disk, runs, caller,
      annotations, widget>>

---------------------------------------------------------------------------
(* Bounds of the model *)

NumFrames == 1          \* frames of a pose file
NumSlots == 2           \* detection slots per frame (axis 1 of 'points')
NumKeypoints == 3       \* keypoints per detection (12 in production files)
MaxDetections == 2      \* populated detection slots of a pose file
NumVideos == 2          \* videos of a project
MaxIdentities == 2      \* identities of a video's pose file
VideoFrames == 2        \* frames of a video
MaxRuns == 2            \* get_labeled_features calls on one project
SeriesFrames == 3       \* frames of a series of angles
WindowSize == 1         \* window size for a series of angles

Frames == 0 .. (NumFrames - 1)
Slots == 0 .. (NumSlots - 1)
Keypoints == 0 .. (NumKeypoints - 1)

\* instance_embed_id is 1-based; NumSlots + 1 is an id the arrays cannot hold
EmbedIds == 0 .. (NumSlots + 1)

Max(S) == CHOOSE x \in S : \A y \in S : y <= x

Range(n) == [k \in 1 .. n |-> k - 1]

---------------------------------------------------------------------------
(* The pose file *)

Datasets == {"points", "confidence", "id_mask", "instance_embed_id"}

ZeroPoints == [k \in Keypoints |-> <<0, 0>>]
ZeroConfidence == [k \in Keypoints |-> 0]

\* confidence rows: positive on the core keypoints only, or on the last two
\* keypoints only
HeadConfidence == [k \in Keypoints |-> IF k < NumKeypoints - 2 THEN 1 ELSE 0]
TailConfidence == [k \in Keypoints |-> IF k < NumKeypoints - 2 THEN 0 ELSE 1]

\* pixel coordinates of the detection in slot d of frame f: non-zero and
\* different for every detection and keypoint
PointsOf(f, d) == [k \in Keypoints |-> <<1 + f * NumSlots + d, 1 + k>>]

\* a slot the tracker left empty: masked out, no embed id, all zero
EmptySlot == [id_mask |-> 1, instance_embed_id |-> 0,
              confidence |-> ZeroConfidence, points |-> ZeroPoints]

\* what the tracker can write in a populated slot: a valid detection (id_mask
\* 0) with an embed id and either confidence row, or an invalid one (id_mask
\* non-zero) that still carries an embed id and confident keypoints
SlotContents ==
    {[id_mask |-> 0, instance_embed_id |-> e, confidence |-> c] :
        e \in EmbedIds \ {0}, c \in {HeadConfidence, TailConfidence}}
    \cup
    {[id_mask |-> 1, instance_embed_id |-> e, confidence |-> HeadConfidence] :
        e \in EmbedIds \ {0}}

Positions == Frames \X Slots

Populated(p, c) ==
    [id_mask |-> c.id_mask, instance_embed_id |-> c.instance_embed_id,
     confidence |-> c.confidence, points |-> PointsOf(p[1], p[2])]

\* the detections of a file with the slots P populated by g
DetectionsOf(P, g) ==
    [p \in Positions |-> IF p \in P THEN Populated(p, g[p]) ELSE EmptySlot]

\* version attribute values; NoVersion stands for a file without the attribute
NoVersion == 0
Versions == {NoVersion, 2, 3, 4, 5}

SampleDetections == DetectionsOf({<<0, 0>>}, [p \in {<<0, 0>>} |->
    [id_mask |-> 0, instance_embed_id |-> 1, confidence |-> HeadConfidence]])

PoseFile(v, ds, det) == [version |-> v, datasets |-> ds, det |-> det]

---------------------------------------------------------------------------
(* PoseEstimationV4.__init__ *)

NoPose == [status |-> "none"]
Raised(e) == [status |-> "raised", error |-> e]

\* the datasets as the reader slices them out of the file
all_points(f) == [fr \in Frames |-> [d \in Slots |-> f.det[<<fr, d>>].points]]
all_confidence(f) == [fr \in Frames |-> [d \in Slots |-> f.det[<<fr, d>>].confidence]]
id_mask(f) == [fr \in Frames |-> [d \in Slots |-> f.det[<<fr, d>>].id_mask]]
instance_embed_id(f) ==
    [fr \in Frames |-> [d \in Slots |-> f.det[<<fr, d>>].instance_embed_id]]

\* the detections np.ma.array(..., mask=id_mask) leaves visible
Unmasked(f) == {p \in Positions : id_mask(f)[p[1]][p[2]] = 0}

\* a maximum taken over every embed id, the masked ones included
MaxEmbedIdIgnoringMask(f) ==
    Max({instance_embed_id(f)[p[1]][p[2]] : p \in Positions})

\* np.max over the masked embed ids; Unmasked(f) is not empty
MaxEmbedId(f) ==
    Max({instance_embed_id(f)[p[1]][p[2]] : p \in Unmasked(f)})

\* the unmasked detections of frame fr that the fancy-index assignment writes
\* into row j of the by-identity array
Candidates(f, fr, j) ==
    {d \in Slots : /\ id_mask(f)[fr][d] = 0
                   /\ instance_embed_id(f)[fr][d] - 1 = j}

\* cells written more than once: numpy does not define which write remains
Contested(f) == {c \in Positions : Cardinality(Candidates(f, c[1], c[2])) > 1}

WriteOrders(f) ==
    {w \in [Contested(f) -> Slots] :
        \A c \in Contested(f) : w[c] \in Candidates(f, c[1], c[2])}

Written(f, w, fr, j) ==
    IF <<fr, j>> \in Contested(f) THEN w[<<fr, j>>]
    ELSE CHOOSE d \in Candidates(f, fr, j) : TRUE

\* a scatter that indexes by embed id without selecting id_mask == 0
ScatterPointsIgnoringMask(f, w) ==
    [j \in Slots |-> [fr \in Frames |->
        IF \E d \in Slots : instance_embed_id(f)[fr][d] - 1 = j
        THEN all_points(f)[fr][CHOOSE d \in Slots : instance_embed_id(f)[fr][d] - 1 = j]
        ELSE ZeroPoints]]

\* points_by_id_tmp transposed to [identity][frame]
ScatterPoints(f, w) ==
    [j \in Slots |-> [fr \in Frames |->
        IF Candidates(f, fr, j) = {} THEN ZeroPoints
        ELSE all_points(f)[fr][Written(f, w, fr, j)]]]

\* confidence_by_id
ScatterConfidence(f, w) ==
    [j \in Slots |-> [fr \in Frames |->
        IF Candidates(f, fr, j) = {} THEN ZeroConfidence
        ELSE all_confidence(f)[fr][Written(f, w, fr, j)]]]

PointMask(conf) ==
    [j \in Slots |-> [fr \in Frames |-> [k \in Keypoints |-> conf[j][fr][k] > 0]]]

\* the slice [:-1], which drops one keypoint only
AllButLastKeypoint == 0 .. (NumKeypoints - 2)

\* the vectorized init_func: the sum over point_mask[x][y][:-2]
CoreKeypoints == 0 .. (NumKeypoints - 3)

\* a mask entry that counts every keypoint, the tail points too
InitFuncOverAllKeypoints(point_mask, x, y) ==
    IF Cardinality({k \in Keypoints : point_mask[x][y][k]}) = 0 THEN 0 ELSE 1

\* init_func: 0 if np.sum(point_mask[x][y][:-2]) == 0 else 1
init_func(point_mask, x, y) ==
    IF Cardinality({k \in CoreKeypoints : point_mask[x][y][k]}) = 0 THEN 0 ELSE 1

IdentityMask(point_mask, n) ==
    [x \in 0 .. (n - 1) |-> [y \in Frames |-> init_func(point_mask, x, y)]]

\* The constructor.  wp and wc are the write orders of the two fancy-index
\* assignments (points, confidence).  The lookups of the version attribute
\* and of the datasets raise KeyError when the key is absent; range() raises
\* TypeError on the masked constant np.max returns when every detection is
\* masked; an embed id beyond the slots of the arrays raises IndexError, in
\* the assignment or in the indexing of point_mask by init_func.
PoseEstimationV4(f, wp, wc) ==
    IF f.version = NoVersion THEN Raised("KeyError")
    ELSE IF f.datasets # Datasets THEN Raised("KeyError")
    ELSE IF Unmasked(f) = {} THEN Raised("TypeError")
    ELSE IF \E p \in Unmasked(f) : instance_embed_id(f)[p[1]][p[2]] - 1 \notin Slots
         THEN Raised("IndexError")
    ELSE IF MaxEmbedId(f) > NumSlots THEN Raised("IndexError")
    ELSE LET n == MaxEmbedId(f)
             pm == PointMask(ScatterConfidence(f, wc))
         IN [status |-> "loaded",
             cls |-> "PoseEstimationV4",
             num_frames |-> NumFrames,
             num_identities |-> n,
             identities |-> Range(n),
             points |-> ScatterPoints(f, wp),
             point_mask |-> pm,
             identity_mask |-> IdentityMask(pm, n)]

---------------------------------------------------------------------------
(* open_pose_file and the other readers *)

\* the V3 and V5 readers, as far as the format version goes
PoseEstimationV3(f) == [status |-> "loaded", cls |-> "PoseEstimationV3"]
PoseEstimationV5(f) == [status |-> "loaded", cls |-> "PoseEstimationV5"]

\* dispatch on the major version read from the file's version attribute
open_pose_file(f, wp, wc) ==
    CASE f.version = 3 -> PoseEstimationV3(f)
      [] f.version = 4 -> PoseEstimationV4(f, wp, wc)
      [] f.version = 5 -> PoseEstimationV5(f)
      [] OTHER -> Raised("UnsupportedFormat")

\* the property as the V3 reader defines it
FormatMajorVersionOfV3(self) == 3

\* PoseEstimationV4.format_major_version
FormatMajorVersionV4(self) == 4

format_major_version(self) ==
    CASE self.cls = "PoseEstimationV3" -> 3
      [] self.cls = "PoseEstimationV4" -> FormatMajorVersionV4(self)
      [] self.cls = "PoseEstimationV5" -> 5

---------------------------------------------------------------------------
(* PoseEstimationV4.get_points *)

NoResult == [op |-> "none"]

\* scale factors a caller may pass
Scales == {2, 3}

\* what a get_points call hands back: the exception it raised, if any, or
\* (None, None), or the rows
Returned(nargs, frame_index, identity, scale, points, mask) ==
    [op |-> "get_points", nargs |-> nargs, frame |-> frame_index,
     identity |-> identity, scale |-> scale, raised |-> "", is_none |-> FALSE,
     points |-> points, mask |-> mask]
ReturnedNone(nargs, frame_index, identity, scale) ==
    [op |-> "get_points", nargs |-> nargs, frame |-> frame_index,
     identity |-> identity, scale |-> scale, raised |-> "", is_none |-> TRUE,
     points |-> ZeroPoints, mask |-> [k \in Keypoints |-> FALSE]]
CallRaised(nargs, frame_index, identity, scale, e) ==
    [op |-> "get_points", nargs |-> nargs, frame |-> frame_index,
     identity |-> identity, scale |-> scale, raised |-> e, is_none |-> FALSE,
     points |-> ZeroPoints, mask |-> [k \in Keypoints |-> FALSE]]

\* a get_points without the identity_mask test
GetPointsIgnoringMask(self, frame_index, identity) ==
    Returned(2, frame_index, identity, 1,
             self.points[identity][frame_index],
             self.point_mask[identity][frame_index])

\* get_points(frame_index, identity): (None, None) when the identity mask is
\* zero, else the stored rows
get_points(self, frame_index, identity) ==
    IF self.identity_mask[identity][frame_index] = 0
    THEN ReturnedNone(2, frame_index, identity, 1)
    ELSE Returned(2, frame_index, identity, 1,
                  self.points[identity][frame_index],
                  self.point_mask[identity][frame_index])

\* get_points(frame_index, identity, scale): the method has no scale
\* parameter, so the call raises before the body runs
get_points_scaled(self, frame_index, identity, scale) ==
    CallRaised(3, frame_index, identity, scale, "TypeError")

---------------------------------------------------------------------------
(* Actions of the pose reader *)

IsV4(p) == p.status = "loaded" /\ p.cls = "PoseEstimationV4"

\* open_pose_file(path)
OpenPoseFile ==
    /\ pose.status = "none"
    /\ \E wp \in WriteOrders(file), wc \in WriteOrders(file) :
           pose' = open_pose_file(file, wp, wc)
    /\ entry' = "open_pose_file"
    /\ UNCHANGED <<file, result, project, features, disk, runs, caller,
                 annotations, widget>>

\* PoseEstimationV4(path)
ConstructV4 ==
    /\ pose.status = "none"
    /\ \E wp \in WriteOrders(file), wc \in WriteOrders(file) :
           pose' = PoseEstimationV4(file, wp, wc)
    /\ entry' = "PoseEstimationV4"
    /\ UNCHANGED <<file, result, project, features, disk, runs, caller,
                 annotations, widget>>

\* The accessors leave the object as it is, so a call after another call
\* returns what it returns as the first call: the calls are explored from the
\* freshly loaded object.
GetFormatMajorVersion ==
    /\ pose.status = "loaded"
    /\ result = NoResult
    /\ result' = [op |-> "format_major_version",
                  value |-> format_major_version(pose)]
    /\ UNCHANGED <<file, pose, entry, project, features, disk, runs, caller,
                 annotations, widget>>

GetPoints ==
    /\ IsV4(pose)
    /\ result = NoResult
    /\ \E fr \in Frames, i \in 0 .. (pose.num_identities - 1) :
           result' = get_points(pose, fr, i)
    /\ UNCHANGED <<file, pose, entry, project, features, disk, runs, caller,
                 annotations, widget>>

GetPointsScaled ==
    /\ IsV4(pose)
    /\ result = NoResult
    /\ \E fr \in Frames, i \in 0 .. (pose.num_identities - 1), s \in Scales :
           result' = get_points_scaled(pose, fr, i, s)
    /\ UNCHANGED <<file, pose, entry, project, features, disk, runs, caller,
                 annotations, widget>>

NoProject == [status |-> "none"]
NoFeatures == [status |-> "none"]
NoDisk == [status |-> "none"]
NoCaller == [status |-> "none"]
NoAnnotations == [status |-> "none"]
NoWidget == [status |-> "none"]

\* The file handed to the reader: a version 4 file with every dataset and at
\* most MaxDetections populated slots, or a file of any version, lacking any
\* of the datasets, with one valid detection.
InitPose ==
    /\ \/ \E P \in SUBSET Positions :
            /\ Cardinality(P) <= MaxDetections
            /\ \E g \in [P -> SlotContents] :
                   file = PoseFile(4, Datasets, DetectionsOf(P, g))
       \/ \E v \in Versions, ds \in SUBSET Datasets :
            file = PoseFile(v, ds, SampleDetections)
    /\ pose = NoPose
    /\ entry = "none"
    /\ result = NoResult
    /\ project = NoProject
    /\ features = NoFeatures
    /\ disk = NoDisk
    /\ runs = <<>>
    /\ caller = NoCaller
    /\ annotations = NoAnnotations
    /\ widget = NoWidget

NextPose ==
    \/ OpenPoseFile
    \/ ConstructV4
    \/ GetFormatMajorVersion
    \/ GetPoints
    \/ GetPointsScaled

SpecPose == InitPose /\ [][NextPose]_vars

---------------------------------------------------------------------------
(* The project *)

\* TrackLabels.Label
BEHAVIOR == 1
NOT_BEHAVIOR == 0
NONE == -1

\* file names of the project's videos, in the order Project.__init__ sorts
\* them into
VideoNames == <<"a.avi", "b.avi", "c.avi", "d.avi">>
Videos == SubSeq(VideoNames, 1, NumVideos)
VideoSet == {Videos[k] : k \in 1 .. NumVideos}

VideoFrameRange == 0 .. (VideoFrames - 1)

\* label tracks of an identity for the behavior asked for: nothing labelled;
\* the first frame not-behavior, the last behavior and none between; all but
\* the first frame behavior
UnlabeledTrack == [f \in VideoFrameRange |-> NONE]
EndsLabeledTrack ==
    [f \in VideoFrameRange |->
        IF f = 0 THEN NOT_BEHAVIOR
        ELSE IF f = VideoFrames - 1 THEN BEHAVIOR ELSE NONE]
TailLabeledTrack == [f \in VideoFrameRange |-> IF f = 0 THEN NONE ELSE BEHAVIOR]
Tracks == {UnlabeledTrack, EndsLabeledTrack, TailLabeledTrack}

\* TrackLabels.get_labels(): the frame-aligned label vector, as a sequence
get_labels(track) == [k \in 1 .. VideoFrames |-> track[k - 1]]

\* pose_est.identities of the pose file of a video with n identities
identities(n) == Range(n)

---------------------------------------------------------------------------
(* Project.get_labeled_features *)

\* the label vector without the selection of labelled frames
AllLabels(labels) == labels

RECURSIVE Select(_, _)
\* labels[labels != TrackLabels.Label.NONE]
Select(labels, k) ==
    IF k > Len(labels) THEN <<>>
    ELSE IF labels[k] # NONE THEN <<labels[k]>> \o Select(labels, k + 1)
    ELSE Select(labels, k + 1)
LabeledOnly(labels) == Select(labels, 1)

RECURSIVE LabeledRows(_, _)
LabeledRows(labels, k) ==
    IF k > Len(labels) THEN <<>>
    ELSE IF labels[k] # NONE THEN <<k - 1>> \o LabeledRows(labels, k + 1)
    ELSE LabeledRows(labels, k + 1)

\* IdentityFeatures.get_per_frame(labels): the feature rows of the frames that
\* carry a label, in frame order; a row is named by its frame
get_per_frame(labels) == [angles |-> LabeledRows(labels, 1)]

\* np.full(n, value)
Full(n, value) == [k \in 1 .. n |-> value]

RECURSIVE Concatenate(_)
\* np.concatenate over a list of arrays
Concatenate(arrays) ==
    IF arrays = <<>> THEN <<>>
    ELSE Head(arrays) \o Concatenate(Tail(arrays))

\* the locals of get_labeled_features before the loop; calls is the sequence of
\* the calls the loop has made so far
LoopStart ==
    [all_per_frame |-> <<>>, all_labels |-> <<>>, all_groups |-> <<>>,
     group_mapping |-> <<>>, group_id |-> 0, progress |-> 0, calls |-> <<>>]

\* a block sized by the frames of the video
GroupBlockOverAllFrames(per_frame_features, labels, group_id) ==
    Full(Len(labels), group_id)

\* the block of group ids appended for an identity: as many as the rows of
\* per_frame_features['angles']
GroupBlock(per_frame_features, labels, group_id) ==
    Full(Len(per_frame_features.angles), group_id)

\* a loop that never advances the group id
SameGroupId(group_id) == group_id

\* group_id += 1
NextGroupId(group_id) == group_id + 1

\* an entry that names the first identity of the video
GroupEntryOfFirstIdentity(video, identity) == [video |-> video, identity |-> 0]

\* group_mapping[group_id] = {'video': video, 'identity': identity}
GroupEntry(video, identity) == [video |-> video, identity |-> identity]

Call(name, group_id) == [name |-> name, group_id |-> group_id, args |-> <<>>]

\* the callable called before the features of the identity are retrieved
ProgressBeforeFeatures(progress_callable, group_id) ==
    (IF progress_callable THEN <<Call("progress_callable", group_id)>> ELSE <<>>)
    \o <<Call("get_labels", group_id), Call("get_per_frame", group_id),
         Call("get_window_features", group_id)>>

\* the calls of one pass of the inner loop, in the order of the statements:
\* the labels, the per-frame and the window features of the identity, then
\* progress_callable() if a callable was given
IdentityCalls(progress_callable, group_id) ==
    <<Call("get_labels", group_id), Call("get_per_frame", group_id),
      Call("get_window_features", group_id)>>
    \o (IF progress_callable THEN <<Call("progress_callable", group_id)>>
        ELSE <<>>)

\* the body of the inner loop, for one identity of one video
IdentityStep(st, proj, video, identity, progress_callable) ==
    LET labels == get_labels(proj.labels[video][identity])
        per_frame_features == get_per_frame(labels)
        rows == [k \in 1 .. Len(per_frame_features.angles) |->
                    [video |-> video, identity |-> identity,
                     frame |-> per_frame_features.angles[k]]]
    IN [all_per_frame |-> Append(st.all_per_frame, rows),
        all_labels |-> Append(st.all_labels, LabeledOnly(labels)),
        all_groups |-> Append(st.all_groups,
                              GroupBlock(per_frame_features, labels, st.group_id)),
        group_mapping |->
            [g \in (DOMAIN st.group_mapping) \cup {st.group_id} |->
                IF g = st.group_id
                THEN GroupEntry(video, identity)
                ELSE st.group_mapping[g]],
        group_id |-> NextGroupId(st.group_id),
        progress |-> IF progress_callable THEN st.progress + 1 ELSE st.progress,
        calls |-> st.calls \o IdentityCalls(progress_callable, st.group_id)]

RECURSIVE IdentityLoop(_, _, _, _, _)
IdentityLoop(st, proj, video, ids, progress_callable) ==
    IF ids = <<>> THEN st
    ELSE IdentityLoop(IdentityStep(st, proj, video, Head(ids), progress_callable),
                      proj, video, Tail(ids), progress_callable)

RECURSIVE VideoLoop(_, _, _, _)
VideoLoop(st, proj, videos, progress_callable) ==
    IF videos = <<>> THEN st
    ELSE VideoLoop(IdentityLoop(st, proj, Head(videos),
                                identities(proj.num_identities[Head(videos)]),
                                progress_callable),
                   proj, Tail(videos), progress_callable)

\* np.concatenate raises ValueError on an empty list of arrays
get_labeled_features(proj, progress_callable) ==
    LET st == VideoLoop(LoopStart, proj, proj.videos, progress_callable)
    IN IF st.all_labels = <<>>
       THEN [status |-> "raised", error |-> "ValueError"]
       ELSE [status |-> "returned",
             per_frame |-> Concatenate(st.all_per_frame),
             labels |-> Concatenate(st.all_labels),
             groups |-> Concatenate(st.all_groups),
             group_mapping |-> st.group_mapping,
             progress |-> st.progress,
             progress_callable |-> progress_callable,
             calls |-> st.calls]

GetLabeledFeatures ==
    /\ project.status = "open"
    /\ features = NoFeatures
    /\ \E progress_callable \in BOOLEAN :
           features' = get_labeled_features(project, progress_callable)
    /\ UNCHANGED <<file, pose, entry, result, project, disk, runs, caller,
                 annotations, widget>>

\* a project of NumVideos videos, each with 1 .. MaxIdentities identities and
\* a label track per identity
InitFeatures ==
    /\ \E n \in [VideoSet -> 1 .. MaxIdentities] :
       \E l \in [VideoSet -> [0 .. (MaxIdentities - 1) -> Tracks]] :
           project = [status |-> "open", videos |-> Videos,
                      num_identities |-> n,
                      labels |-> [v \in VideoSet |->
                                     [i \in 0 .. (n[v] - 1) |-> l[v][i]]]]
    /\ file = PoseFile(4, Datasets, SampleDetections)
    /\ pose = NoPose
    /\ entry = "none"
    /\ result = NoResult
    /\ features = NoFeatures
    /\ disk = NoDisk
    /\ runs = <<>>
    /\ caller = NoCaller
    /\ annotations = NoAnnotations
    /\ widget = NoWidget

NextFeatures == GetLabeledFeatures

SpecFeatures == InitFeatures /\ [][NextFeatures]_vars

---------------------------------------------------------------------------
(* The project directory and the project file *)

\* version_str()
version_str == "0.11.3 [beta]"

\* the version string an earlier release has written into a project file
EarlierVersion == "0.10.0 [beta]"

\* fe.DEFAULT_WINDOW_SIZE
DEFAULT_WINDOW_SIZE == 5

\* a dict is a function over its keys
EmptyDict == [k \in {} |-> TRUE]

\* d.get(key, default)
Get(d, key, default) == IF key \in DOMAIN d THEN d[key] ELSE default

\* d[key] = value
SetItem(d, key, value) ==
    [k \in (DOMAIN d) \cup {key} |-> IF k = key THEN value ELSE d[k]]

\* d.update(data)
Update(d, data) ==
    [k \in (DOMAIN d) \cup (DOMAIN data) |->
        IF k \in DOMAIN data THEN data[k] ELSE d[k]]

\* json.dump of a dict: the text of a JSON object with the members of the dict
JsonDump(d) == [json |-> "object", members |-> d]

\* json.load: a JSON object becomes a dict, a JSON array a list
JsonLoad(text) ==
    IF text.json = "object" THEN [type |-> "dict", value |-> text.members]
    ELSE [type |-> "list", value |-> text.elements]

\* the project file: absent, not JSON text, or JSON text
MissingFile == [kind |-> "missing"]
InvalidFile == [kind |-> "invalid"]
JsonFile(text) == [kind |-> "json", text |-> text]

\* names of the pose files get_pose_path looks for next to a video
PoseSuffixes == {"_pose_est_v3.h5", "_pose_est_v4.h5", "_pose_est_v5.h5"}
NoPoseFile == "none"

\* the position of a file name in the lexicographic order of the names
Rank(name) == CHOOSE k \in 1 .. Len(VideoNames) : VideoNames[k] = name

\* Project.get_videos: the names of the avi files, in the order glob yields
get_videos(dir) == dir.listing

RECURSIVE Insert(_, _)
Insert(name, sorted) ==
    IF sorted = <<>> THEN <<name>>
    ELSE IF Rank(name) <= Rank(Head(sorted)) THEN <<name>> \o sorted
    ELSE <<Head(sorted)>> \o Insert(name, Tail(sorted))

\* the list as glob yielded it
GlobOrder(videos) == videos

RECURSIVE Sort(_)
\* self._videos.sort()
Sort(videos) ==
    IF videos = <<>> THEN <<>>
    ELSE Insert(Head(videos), Sort(Tail(videos)))

\* get_pose_path: the path of the pose file of a video, ValueError without one
get_pose_path(dir, video) ==
    IF dir.pose[video] = NoPoseFile THEN Raised("ValueError")
    ELSE [status |-> "path", video |-> video, name |-> dir.pose[video]]

\* Project.__has_pose
has_pose(dir, video) == get_pose_path(dir, video).status # "raised"

\* Project.__hash_file: the digest of the content of a file
hash_file(path) == [blake2b |-> path]

---------------------------------------------------------------------------
(* Project.load_metadata and Project.save_metadata *)

\* try: json.load(project file) except: {}; then the default window size
load_metadata(project_file) ==
    LET settings == IF project_file.kind = "json"
                    THEN JsonLoad(project_file.text)
                    ELSE [type |-> "dict", value |-> EmptyDict]
    IN IF settings.type # "dict" THEN Raised("TypeError")
       ELSE IF "window_sizes" \notin DOMAIN settings.value
       THEN [status |-> "returned",
             value |-> SetItem(settings.value, "window_sizes",
                               <<DEFAULT_WINDOW_SIZE>>)]
       ELSE [status |-> "returned", value |-> settings.value]

\* self._metadata.update(data); self._metadata['version'] = version_str()
Merge(metadata, data) ==
    SetItem(Update(metadata, data), "version", version_str)

\* save_metadata: the merged metadata and the project file written from it
save_metadata(metadata, data) ==
    LET merged == Merge(metadata, data)
    IN [metadata |-> merged, project_file |-> JsonFile(JsonDump(merged))]

---------------------------------------------------------------------------
(* Project.__init__ *)

\* the body of the loop over the videos that fills in video_metadata
VideoInfo(dir, video_metadata, video) ==
    LET vinfo == Get(video_metadata, video, EmptyDict)
        with_identities ==
            IF "identities" \in DOMAIN vinfo THEN vinfo
            ELSE SetItem(vinfo, "identities", dir.identities[video])
        with_pose_hash ==
            IF "pose_hash" \in DOMAIN vinfo THEN with_identities
            ELSE SetItem(with_identities, "pose_hash",
                         hash_file(get_pose_path(dir, video)))
    IN IF "vid_hash" \in DOMAIN vinfo THEN with_pose_hash
       ELSE SetItem(with_pose_hash, "vid_hash", hash_file(video))

RECURSIVE VideoMetadataLoop(_, _, _)
VideoMetadataLoop(dir, video_metadata, videos) ==
    IF videos = <<>> THEN video_metadata
    ELSE VideoMetadataLoop(dir,
                           SetItem(video_metadata, Head(videos),
                                   VideoInfo(dir, video_metadata, Head(videos))),
                           Tail(videos))

RECURSIVE TotalIdentities(_, _)
TotalIdentities(video_metadata, videos) ==
    IF videos = <<>> THEN 0
    ELSE video_metadata[Head(videos)]["identities"]
         + TotalIdentities(video_metadata, Tail(videos))

\* a test that takes every pose file for a V3 file
AnyPoseFile(pose_path) == TRUE

\* curr_has_social = pose_path.name.endswith('v3.h5')
curr_has_social(pose_path) == pose_path.name = "_pose_est_v3.h5"

RECURSIVE SocialLoop(_, _, _, _)
\* the loop that determines has_social_features, from video i on
SocialLoop(dir, videos, i, has_social_features) ==
    IF i > Len(videos)
    THEN [status |-> "done", has_social_features |-> has_social_features]
    ELSE LET curr == curr_has_social(get_pose_path(dir, videos[i]))
         IN IF i = 1 THEN SocialLoop(dir, videos, 2, curr)
            ELSE IF curr # has_social_features THEN Raised("ValueError")
            ELSE SocialLoop(dir, videos, i + 1, has_social_features)

\* the label track the annotations of the project hold for an identity: no
\* annotation file for the first name, and tracks that differ between the
\* first identity and the others for the other names
AnnotatedTrack(video, identity) ==
    IF Rank(video) = 1 THEN UnlabeledTrack
    ELSE IF identity = 0 THEN EndsLabeledTrack ELSE TailLabeledTrack

\* Project(project_path, enable_video_check): the object, or the exception,
\* and the directory as the constructor leaves it
Project(dir, enable_video_check) ==
    LET loaded == load_metadata(dir.project_file)
        videos == Sort(get_videos(dir))
        names == {videos[k] : k \in 1 .. Len(videos)}
    IN IF loaded.status = "raised" THEN [project |-> loaded, disk |-> dir]
       ELSE IF \E v \in names : ~has_pose(dir, v)
       THEN [project |-> Raised("ValueError"), disk |-> dir]
       ELSE IF enable_video_check /\ \E v \in names : v \in dir.frames_differ
       THEN [project |-> Raised("ValueError"), disk |-> dir]
       ELSE LET video_metadata ==
                    VideoMetadataLoop(dir,
                                      Get(loaded.value, "video_files", EmptyDict),
                                      videos)
                saved == save_metadata(loaded.value,
                                       [k \in {"video_files"} |-> video_metadata])
                written == [dir EXCEPT !.project_file = saved.project_file]
                social == SocialLoop(dir, videos, 1, FALSE)
            IN IF social.status = "raised"
               THEN [project |-> social, disk |-> written]
               ELSE [project |->
                        [status |-> "open",
                         videos |-> videos,
                         num_identities |-> [v \in names |-> dir.identities[v]],
                         labels |-> [v \in names |->
                                        [i \in 0 .. (dir.identities[v] - 1) |->
                                            AnnotatedTrack(v, i)]],
                         has_social_features |-> social.has_social_features,
                         total_project_identities |->
                             TotalIdentities(video_metadata, videos),
                         metadata |-> saved.metadata],
                     disk |-> written]

---------------------------------------------------------------------------
(* The calls on an open project *)

\* names of the videos of a project
VideoNamesOf(proj) == {proj.videos[k] : k \in 1 .. Len(proj.videos)}

\* a video file name that no project directory holds
StrayVideo == "z.avi"

\* the paths a caller may hand to the project: a file name inside the project
\* directory or inside another directory
Paths == [parent : {"project", "elsewhere"}, name : VideoSet \cup {StrayVideo}]

\* Path(video_name).name
FileName(path) == path.name

\* a check that accepts every name
AcceptAnyName(proj, video_filename) == [status |-> "returned"]

\* Project.check_video_name
check_video_name(proj, video_filename) ==
    IF video_filename \notin VideoNamesOf(proj) THEN Raised("ValueError")
    ELSE [status |-> "returned"]

\* the outcome of a call on the project: the exception raised, if any, and
\* the files the call has read
Outcome(op, path, raised, reads) ==
    [op |-> op, path |-> path, raised |-> raised, reads |-> reads]

\* Project.load_video_labels: the annotations of the video if the project
\* has them, else the frame count of the video
load_video_labels(proj, dir, video_name) ==
    LET video_filename == FileName(video_name)
    IN IF check_video_name(proj, video_filename).status = "raised"
       THEN Outcome("load_video_labels", video_name, "ValueError", {})
       ELSE IF AnnotatedTrack(video_filename, 0) # UnlabeledTrack
       THEN Outcome("load_video_labels", video_name, "",
                    {[file |-> "annotations", video |-> video_filename]})
       ELSE Outcome("load_video_labels", video_name, "",
                    {[file |-> "video", video |-> video_filename]})

\* Project.load_pose_est: the pose file next to the given path; a directory
\* other than the project's holds no pose file
load_pose_est(proj, dir, video_path) ==
    LET video_filename == FileName(video_path)
    IN IF check_video_name(proj, video_filename).status = "raised"
       THEN Outcome("load_pose_est", video_path, "ValueError", {})
       ELSE IF video_path.parent # "project"
       THEN Outcome("load_pose_est", video_path, "ValueError", {})
       ELSE Outcome("load_pose_est", video_path, "",
                    {[file |-> "pose", video |-> video_filename]})

NewProject ==
    /\ disk # NoDisk
    /\ project = NoProject
    /\ \E enable_video_check \in BOOLEAN :
           LET made == Project(disk, enable_video_check)
           IN /\ project' = made.project
              /\ disk' = made.disk
    /\ UNCHANGED <<file, pose, entry, result, features, runs, caller,
                 annotations, widget>>

CheckVideoName ==
    /\ project.status = "open"
    /\ result = NoResult
    /\ runs = <<>>
    /\ \E path \in Paths :
           result' = Outcome("check_video_name", path,
                             IF check_video_name(project, FileName(path)).status
                                    = "raised"
                             THEN "ValueError" ELSE "",
                             {})
    /\ UNCHANGED <<file, pose, entry, project, features, disk, runs, caller,
                 annotations, widget>>

LoadVideoLabels ==
    /\ project.status = "open"
    /\ result = NoResult
    /\ runs = <<>>
    /\ \E video_name \in Paths :
           result' = load_video_labels(project, disk, video_name)
    /\ UNCHANGED <<file, pose, entry, project, features, disk, runs, caller,
                 annotations, widget>>

LoadPoseEst ==
    /\ project.status = "open"
    /\ result = NoResult
    /\ runs = <<>>
    /\ \E video_path \in Paths :
           result' = load_pose_est(project, disk, video_path)
    /\ UNCHANGED <<file, pose, entry, project, features, disk, runs, caller,
                 annotations, widget>>

\* get_labeled_features called on the project once more
RunLabeledFeatures ==
    /\ project.status = "open"
    /\ result = NoResult
    /\ Len(runs) < MaxRuns
    /\ \E progress_callable \in BOOLEAN :
           runs' = Append(runs, get_labeled_features(project, progress_callable))
    /\ UNCHANGED <<file, pose, entry, result, project, features, disk, caller,
                 annotations, widget>>

\* the orders in which glob may yield the names of a set of videos
Listings(S) ==
    {l \in [1 .. Cardinality(S) -> S] :
        \A j, k \in 1 .. Cardinality(S) : j # k => l[j] # l[k]}

\* a project file saved by the running release, with more window sizes than
\* the default and the identities of the first video cached
CachedProjectFile ==
    JsonFile(JsonDump(
        [k \in {"version", "window_sizes", "video_files"} |->
            CASE k = "version" -> version_str
              [] k = "window_sizes" -> <<DEFAULT_WINDOW_SIZE, 2 * DEFAULT_WINDOW_SIZE>>
              [] k = "video_files" ->
                     [v \in {VideoNames[1]} |->
                         [i \in {"identities"} |-> MaxIdentities]]]))

Dir(listing, pose_of, n, frames_differ, project_file) ==
    [status |-> "dir", listing |-> listing, pose |-> pose_of, identities |-> n,
     frames_differ |-> frames_differ, project_file |-> project_file]

\* A project directory: any of the videos, listed by glob in any order, each
\* with one pose file or none and with one or MaxIdentities identities; the
\* frame counts of the first listed video and its pose file may differ; the
\* project file is absent or was saved before.
InitProject ==
    /\ \E S \in SUBSET VideoSet :
       \E listing \in Listings(S) :
       \E pose_of \in [S -> PoseSuffixes \cup {NoPoseFile}] :
       \E n \in [S -> {1, MaxIdentities}] :
       \E frames_differ \in {{}} \cup {{listing[k]} : k \in (DOMAIN listing) \cap {1}} :
       \E project_file \in {MissingFile, CachedProjectFile} :
           disk = Dir(listing, pose_of, n, frames_differ, project_file)
    /\ file = PoseFile(4, Datasets, SampleDetections)
    /\ pose = NoPose
    /\ entry = "none"
    /\ result = NoResult
    /\ project = NoProject
    /\ features = NoFeatures
    /\ runs = <<>>
    /\ caller = NoCaller
    /\ annotations = NoAnnotations
    /\ widget = NoWidget

NextProject ==
    \/ NewProject
    \/ CheckVideoName
    \/ LoadVideoLabels
    \/ LoadPoseEst
    \/ RunLabeledFeatures

SpecProject == InitProject /\ [][NextProject]_vars

---------------------------------------------------------------------------
(* The project metadata *)

\* a project file that holds a JSON array
ArrayFile == JsonFile([json |-> "array", elements |-> <<>>])

\* a project file saved by an earlier release: no window sizes, no videos
EarlierProjectFile ==
    JsonFile(JsonDump(
        [k \in {"version", "selected_behavior"} |->
            IF k = "version" THEN EarlierVersion ELSE "walk"]))

ProjectFiles ==
    {MissingFile, InvalidFile, ArrayFile, EarlierProjectFile, CachedProjectFile}

\* the dicts a caller hands to save_metadata: nothing, a behavior, window
\* sizes, the running version as __update_version gives it, an earlier
\* version, a behavior and an earlier version
SavedData ==
    {EmptyDict,
     [k \in {"selected_behavior"} |-> "walk"],
     [k \in {"window_sizes"} |-> <<DEFAULT_WINDOW_SIZE, 3 * DEFAULT_WINDOW_SIZE>>],
     [k \in {"version"} |-> version_str],
     [k \in {"version"} |-> EarlierVersion],
     [k \in {"selected_behavior", "version"} |->
         IF k = "version" THEN EarlierVersion ELSE "rear"]}

\* the keys of a metadata dict whose values are lists or dicts
ContainerKeys == {"window_sizes", "video_files", "behaviors"}

\* dict(d): a new dict with the keys of d, whose values are the objects that
\* d holds; shared names the keys under which both dicts hold one mutable
\* object
ShallowCopy(d) ==
    [status |-> "held", dict |-> d, shared |-> (DOMAIN d) \cap ContainerKeys,
     changed |-> FALSE]

\* the metadata property
metadata(proj) == ShallowCopy(proj.metadata)

\* a change made in place to a list or a dict: window_sizes.append(...), or
\* an entry put into the dict of videos or of behaviors
ChangedInPlace(key, value) ==
    IF key = "window_sizes" THEN Append(value, 2 * DEFAULT_WINDOW_SIZE)
    ELSE SetItem(value, StrayVideo, EmptyDict)

\* load_metadata, as __init__ calls it on the project directory or a caller
\* on the project
LoadMetadata ==
    /\ disk # NoDisk
    /\ result = NoResult
    /\ caller = NoCaller
    /\ result' = [op |-> "load_metadata", project_file |-> disk.project_file,
                  outcome |-> load_metadata(disk.project_file)]
    /\ UNCHANGED <<file, pose, entry, project, features, disk, runs, caller,
                 annotations, widget>>

SaveMetadata ==
    /\ project.status = "open"
    /\ result = NoResult
    /\ caller = NoCaller
    /\ \E data \in SavedData :
           LET saved == save_metadata(project.metadata, data)
           IN /\ project' = [project EXCEPT !.metadata = saved.metadata]
              /\ disk' = [disk EXCEPT !.project_file = saved.project_file]
              /\ result' = [op |-> "save_metadata", data |-> data]
    /\ UNCHANGED <<file, pose, entry, features, runs, caller,
                 annotations, widget>>

GetMetadata ==
    /\ project.status = "open"
    /\ result = NoResult
    /\ caller = NoCaller
    /\ caller' = metadata(project)
    /\ result' = [op |-> "metadata"]
    /\ UNCHANGED <<file, pose, entry, project, features, disk, runs,
                 annotations, widget>>

\* the caller binds a key of the returned dict to another object
CallerSetsKey ==
    /\ caller # NoCaller
    /\ ~caller.changed
    /\ \E data \in SavedData \ {EmptyDict} :
           caller' = [caller EXCEPT !.dict = Update(caller.dict, data),
                                    !.shared = caller.shared \ (DOMAIN data),
                                    !.changed = TRUE]
    /\ UNCHANGED <<file, pose, entry, result, project, features, disk, runs,
                 annotations, widget>>

\* the caller changes, in place, a list or a dict that the returned dict
\* holds; the project holds that object when the key is shared
CallerChangesEntry ==
    /\ caller # NoCaller
    /\ ~caller.changed
    /\ \E key \in (DOMAIN caller.dict) \cap ContainerKeys :
           LET value == ChangedInPlace(key, caller.dict[key])
           IN /\ caller' = [caller EXCEPT !.dict = SetItem(caller.dict, key, value),
                                          !.changed = TRUE]
              /\ project' = IF key \in caller.shared
                            THEN [project EXCEPT
                                     !.metadata = SetItem(project.metadata, key, value)]
                            ELSE project
    /\ UNCHANGED <<file, pose, entry, result, features, disk, runs,
                 annotations, widget>>

\* A project directory with every video, each with a pose file of the same
\* kind, and a project file in any of its conditions.
InitMetadata ==
    /\ \E suffix \in PoseSuffixes, project_file \in ProjectFiles :
           disk = Dir(Videos, [v \in VideoSet |-> suffix],
                      [v \in VideoSet |-> MaxIdentities], {}, project_file)
    /\ file = PoseFile(4, Datasets, SampleDetections)
    /\ pose = NoPose
    /\ entry = "none"
    /\ result = NoResult
    /\ project = NoProject
    /\ features = NoFeatures
    /\ runs = <<>>
    /\ caller = NoCaller
    /\ annotations = NoAnnotations
    /\ widget = NoWidget

NextMetadata ==
    \/ NewProject
    \/ LoadMetadata
    \/ SaveMetadata
    \/ GetMetadata
    \/ CallerSetsKey
    \/ CallerChangesEntry

SpecMetadata == InitMetadata /\ [][NextMetadata]_vars

---------------------------------------------------------------------------
(* Feature generators and window aggregation *)

\* a per-frame value, or the lack of one
NoValue == [has |-> FALSE]
Value(v) == [has |-> TRUE, v |-> v]

\* angles of the circular domain [-180, 180), in degrees
Angles == {-180, -90, 0, 90}

\* cosine and sine of a multiple of 90 degrees
Cos(a) == CASE a % 360 = 0 -> 1 [] a % 360 = 180 -> -1 [] OTHER -> 0
Sin(a) == CASE a % 360 = 90 -> 1 [] a % 360 = 270 -> -1 [] OTHER -> 0

Abs(x) == IF x < 0 THEN -x ELSE x

RECURSIVE GCD(_, _)
GCD(a, b) == IF b = 0 THEN a ELSE GCD(b, a % b)

RECURSIVE SumOver(_, _)
\* the sum of the values of samples over the frames S
SumOver(samples, S) ==
    IF S = {} THEN 0
    ELSE LET g == CHOOSE g \in S : TRUE
         IN samples[g] + SumOver(samples, S \ {g})

\* arctan2(s, c) as the direction of (c, s) in lowest terms; arctan2(0, 0) is
\* the angle 0
ArcTan2(s, c) ==
    IF c = 0 /\ s = 0 THEN <<1, 0>>
    ELSE LET d == GCD(Abs(c), Abs(s)) IN <<c \div d, s \div d>>

\* scipy.stats.circmean(samples, high, low): the samples are taken relative
\* to low, the mean angle is arctan2 of the sums of their sines and cosines,
\* brought into [0, period) and put back relative to low; turn is its
\* direction counted from low
circmean(samples, high, low) ==
    LET S == DOMAIN samples
        sin_sum == SumOver([g \in S |-> Sin(samples[g] - low)], S)
        cos_sum == SumOver([g \in S |-> Cos(samples[g] - low)], S)
    IN [turn |-> ArcTan2(sin_sum, cos_sum), low |-> low, high |-> high]

\* scipy.stats.circstd(samples, high, low): a function of the length of the
\* mean resultant, given here by its square and the number of samples
circstd(samples, high, low) ==
    LET S == DOMAIN samples
        sin_sum == SumOver([g \in S |-> Sin(samples[g] - low)], S)
        cos_sum == SumOver([g \in S |-> Cos(samples[g] - low)], S)
    IN [resultant |-> sin_sum * sin_sum + cos_sum * cos_sum,
        count |-> Cardinality(S), low |-> low, high |-> high]

\* the circular operations over the domain [0, 360)
window_operations_circular(x) ==
    [mean |-> circmean(x, 360, 0), std_dev |-> circstd(x, 360, 0)]

\* ClosestFovAngles._window_operations_circular_2
window_operations_circular_2(x) ==
    [mean |-> circmean(x, 180, -180), std_dev |-> circstd(x, 180, -180)]

\* the linear operations: the mean as sum and count, and the extremes
window_operations(x) ==
    LET S == DOMAIN x
    IN [mean |-> [sum |-> SumOver(x, S), count |-> Cardinality(S)],
        min |-> CHOOSE v \in {x[g] : g \in S} : \A g \in S : v <= x[g],
        max |-> CHOOSE v \in {x[g] : g \in S} : \A g \in S : x[g] <= v]

\* the frames of the window centered on f whose values take part: inside the
\* sequence, the identity present, the frame holding a value
ValidFrames(values, mask, window_size, f) ==
    {g \in DOMAIN values :
        /\ f - window_size <= g
        /\ g <= f + window_size
        /\ mask[g] = 1
        /\ values[g].has}

\* the window aggregation, with the circular operations of the generator or
\* the linear ones; a window without a valid value has no value
WindowFeatures(values, mask, window_size, circular) ==
    [f \in DOMAIN values |->
        LET used == ValidFrames(values, mask, window_size, f)
        IN IF used = {} THEN [has |-> FALSE, used |-> {}]
           ELSE [has |-> TRUE, used |-> used,
                 stats |-> IF circular
                           THEN window_operations_circular_2(
                                    [g \in used |-> values[g].v])
                           ELSE window_operations([g \in used |-> values[g].v])]]

\* Feature._window_circular with the operations of ClosestFovAngles
window_circular(poses, identity, window_size, per_frame_values) ==
    WindowFeatures(per_frame_values, poses.identity_mask[identity], window_size,
                   TRUE)

\* ClosestFovAngles.per_frame: the angles computed with the closest identities
closest_fov_angles_per_frame(poses, identity) ==
    poses.closest_fov_angles[identity]

\* ClosestFovAngles.window
closest_fov_angles_window(poses, identity, window_size, per_frame_values) ==
    window_circular(poses, identity, window_size, per_frame_values)

\* the identities other than identity that are present at frame f
OthersPresent(poses, identity, f) ==
    {j \in 0 .. (poses.num_identities - 1) :
        j # identity /\ poses.identity_mask[j][f] = 1}

\* the per-frame distance to the closest other identity: no value where the
\* identity is absent or alone
distance_per_frame(poses, identity) ==
    [f \in 0 .. (poses.num_frames - 1) |->
        IF poses.identity_mask[identity][f] = 0 THEN NoValue
        ELSE IF OthersPresent(poses, identity, f) = {} THEN NoValue
        ELSE LET d == {Abs(poses.centroid[identity][f] - poses.centroid[j][f]) :
                          j \in OthersPresent(poses, identity, f)}
             IN Value(CHOOSE v \in d : \A w \in d : v <= w)]

\* the default window of a generator, with the linear operations
distance_window(poses, identity, window_size, per_frame_values) ==
    WindowFeatures(per_frame_values, poses.identity_mask[identity], window_size,
                   FALSE)

Generators == {"closest_fov_angles", "distance"}

\* the scenario: a V4-style file of 50 frames and 3 identities, identity 2
\* absent on frames 10 to 19, windows of size 3
Scenario ==
    [frames |-> 50, identities |-> 3, absent_identity |-> 2,
     absent_first |-> 10, absent_last |-> 19, window_size |-> 3]

\* the point mask of the scenario: on the frames of its absence only the
\* tail points of the absent identity have confidence
ScenarioPointMask ==
    [x \in 0 .. (Scenario.identities - 1) |->
        [y \in 0 .. (Scenario.frames - 1) |->
            IF x = Scenario.absent_identity /\ Scenario.absent_first <= y
                                          /\ y <= Scenario.absent_last
            THEN [k \in Keypoints |-> TailConfidence[k] > 0]
            ELSE [k \in Keypoints |-> HeadConfidence[k] > 0]]]

\* a pose object with the fields the generators read
Poses(num_frames, num_identities, identity_mask, angles, window_size) ==
    [status |-> "loaded", cls |-> "PoseEstimationV4",
     num_frames |-> num_frames, num_identities |-> num_identities,
     identity_mask |-> identity_mask,
     centroid |-> [x \in 0 .. (num_identities - 1) |->
                      [y \in 0 .. (num_frames - 1) |-> x * (y + 1)]],
     closest_fov_angles |-> angles,
     window_size |-> window_size]

ScenarioPoses ==
    LET mask == [x \in 0 .. (Scenario.identities - 1) |->
                    [y \in 0 .. (Scenario.frames - 1) |->
                        init_func(ScenarioPointMask, x, y)]]
    IN Poses(Scenario.frames, Scenario.identities, mask,
             [x \in 0 .. (Scenario.identities - 1) |->
                 [y \in 0 .. (Scenario.frames - 1) |->
                     IF mask[x][y] = 1 THEN Value(0) ELSE NoValue]],
             Scenario.window_size)

SeriesFrameRange == 0 .. (SeriesFrames - 1)

\* two identities over SeriesFrames frames: the first with the given angles,
\* absent where it has none; the second always present, straight ahead
SeriesPoses(angles) ==
    Poses(SeriesFrames, 2,
          [x \in 0 .. 1 |-> [y \in SeriesFrameRange |->
              IF x = 0 /\ ~angles[y].has THEN 0 ELSE 1]],
          [x \in 0 .. 1 |-> [y \in SeriesFrameRange |->
              IF x = 0 THEN angles[y] ELSE Value(0)]],
          WindowSize)

PerFrameOf(generator, poses, identity) ==
    IF generator = "closest_fov_angles"
    THEN closest_fov_angles_per_frame(poses, identity)
    ELSE distance_per_frame(poses, identity)

WindowOf(generator, poses, identity, window_size, per_frame_values) ==
    IF generator = "closest_fov_angles"
    THEN closest_fov_angles_window(poses, identity, window_size, per_frame_values)
    ELSE distance_window(poses, identity, window_size, per_frame_values)

\* the per-frame values of a generator for an identity
PerFrame ==
    /\ pose.status = "loaded"
    /\ features = NoFeatures
    /\ \E generator \in Generators, identity \in 0 .. (pose.num_identities - 1) :
           features' = [status |-> "per_frame", generator |-> generator,
                        identity |-> identity,
                        per_frame |-> PerFrameOf(generator, pose, identity)]
    /\ UNCHANGED <<file, pose, entry, result, project, disk, runs, caller,
                 annotations, widget>>

\* the window features over the per-frame values
Window ==
    /\ features.status = "per_frame"
    /\ features' = [status |-> "window", generator |-> features.generator,
                    identity |-> features.identity,
                    per_frame |-> features.per_frame,
                    window_size |-> pose.window_size,
                    window |-> WindowOf(features.generator, pose,
                                        features.identity, pose.window_size,
                                        features.per_frame)]
    /\ UNCHANGED <<file, pose, entry, result, project, disk, runs, caller,
                 annotations, widget>>

\* The pose object handed to the generators: the scenario, or two identities
\* with any angles of the first.
InitWindow ==
    /\ \/ pose = ScenarioPoses
       \/ \E angles \in [SeriesFrameRange -> {NoValue} \cup {Value(a) : a \in Angles}] :
              pose = SeriesPoses(angles)
    /\ file = PoseFile(4, Datasets, SampleDetections)
    /\ entry = "none"
    /\ result = NoResult
    /\ project = NoProject
    /\ features = NoFeatures
    /\ disk = NoDisk
    /\ runs = <<>>
    /\ caller = NoCaller
    /\ annotations = NoAnnotations
    /\ widget = NoWidget

NextWindow ==
    \/ PerFrame
    \/ Window

SpecWindow == InitWindow /\ [][NextWindow]_vars

---------------------------------------------------------------------------
(* VideoLabels of the labeler *)

\* behavior names a labeling project uses
Behaviors == {"walk", "rear"}

\* TrackLabels(num_frames): a track with every frame NONE. A TrackLabels
\* object is told from another by its slot (identity, behavior) and by the
\* count of the TrackLabels constructed for that slot.
TrackLabels(num_frames, generation) ==
    [generation |-> generation,
     labels |-> [f \in 0 .. (num_frames - 1) |-> NONE]]

\* TrackLabels.export(): the blocks of equal BEHAVIOR or NOT_BEHAVIOR labels,
\* from frame f on, in frame order
RECURSIVE BlocksFrom(_, _)
BlocksFrom(labels, f) ==
    IF f \notin DOMAIN labels THEN <<>>
    ELSE LET end == Max({g \in DOMAIN labels :
                            g >= f /\ \A h \in f .. g : labels[h] = labels[f]})
             block == [start |-> f, end |-> end,
                       present |-> labels[f] = BEHAVIOR]
         IN (IF labels[f] = NONE THEN <<>> ELSE <<block>>)
                \o BlocksFrom(labels, end + 1)

TrackLabelsExport(track) == BlocksFrom(track.labels, 0)

\* the label the blocks give a frame: that of the last block covering it
LabelOfBlocks(blocks, f) ==
    LET covering == {k \in DOMAIN blocks : blocks[k].start <= f /\ f <= blocks[k].end}
    IN IF covering = {} THEN NONE
       ELSE IF blocks[Max(covering)].present THEN BEHAVIOR ELSE NOT_BEHAVIOR

\* TrackLabels.load(num_frames, blocks)
TrackLabelsLoad(num_frames, blocks) ==
    [TrackLabels(num_frames, 1) EXCEPT
        !.labels = [f \in 0 .. (num_frames - 1) |-> LabelOfBlocks(blocks, f)]]

\* VideoLabels(filename, num_frames)
VideoLabels(filename, num_frames) ==
    [status |-> "object", filename |-> filename, num_frames |-> num_frames,
     identity_labels |-> EmptyDict]

\* get_track_labels constructing a TrackLabels on every call
AlwaysNewTrack(self, identity, behavior) ==
    LET held == Get(self.identity_labels, identity, EmptyDict)
        track == TrackLabels(self.num_frames,
                             IF behavior \in DOMAIN held
                             THEN held[behavior].generation + 1 ELSE 1)
    IN [self |-> [self EXCEPT !.identity_labels =
                     SetItem(@, identity, SetItem(held, behavior, track))],
        track |-> track]

\* VideoLabels.get_track_labels: the object afterwards and the track returned
get_track_labels(self, identity, behavior) ==
    LET with_identity ==
            IF identity \notin DOMAIN self.identity_labels
            THEN SetItem(self.identity_labels, identity, EmptyDict)
            ELSE self.identity_labels
        identity_labels ==
            IF behavior \notin DOMAIN with_identity[identity]
            THEN SetItem(with_identity, identity,
                         SetItem(with_identity[identity], behavior,
                                 TrackLabels(self.num_frames, 1)))
            ELSE with_identity
    IN [self |-> [self EXCEPT !.identity_labels = identity_labels],
        track |-> identity_labels[identity][behavior]]

\* VideoLabels.export()
export(self) ==
    [file |-> self.filename,
     num_frames |-> self.num_frames,
     labels |-> [identity \in DOMAIN self.identity_labels |->
                    [behavior \in DOMAIN self.identity_labels[identity] |->
                        TrackLabelsExport(
                            self.identity_labels[identity][behavior])]]]

\* a load that builds every track with one frame less than the video has
LoadShortTracks(video_label_dict) ==
    [VideoLabels(video_label_dict.file, video_label_dict.num_frames) EXCEPT
        !.identity_labels =
            [identity \in DOMAIN video_label_dict.labels |->
                [behavior \in DOMAIN video_label_dict.labels[identity] |->
                    TrackLabelsLoad(
                        video_label_dict.num_frames - 1,
                        video_label_dict.labels[identity][behavior])]]]

\* VideoLabels.load(video_label_dict)
load(video_label_dict) ==
    [VideoLabels(video_label_dict.file, video_label_dict.num_frames) EXCEPT
        !.identity_labels =
            [identity \in DOMAIN video_label_dict.labels |->
                [behavior \in DOMAIN video_label_dict.labels[identity] |->
                    TrackLabelsLoad(
                        video_label_dict.num_frames,
                        video_label_dict.labels[identity][behavior])]]]

\* the identity keys of a video's label tracks
IdentityKeys == 0 .. (MaxIdentities - 1)

\* VideoLabels.get_track_labels, called by the owner of the object
GetTrackLabels ==
    /\ annotations.status = "object"
    /\ result = NoResult
    /\ Len(runs) < MaxRuns
    /\ \E identity \in IdentityKeys, behavior \in Behaviors :
           LET got == get_track_labels(annotations, identity, behavior)
           IN /\ annotations' = got.self
              /\ runs' = Append(runs,
                                [identity |-> identity, behavior |-> behavior,
                                 before |-> annotations.identity_labels,
                                 track |-> got.track,
                                 after |-> got.self.identity_labels])
    /\ UNCHANGED <<file, pose, entry, result, project, features, disk, caller,
                   widget>>

\* the caller labels frames through the track the last call returned, while
\* the track has no label yet
LabelReturnedTrack ==
    /\ annotations.status = "object"
    /\ result = NoResult
    /\ runs # <<>>
    /\ LET last == runs[Len(runs)]
           track == annotations.identity_labels[last.identity][last.behavior]
       IN /\ track.labels = UnlabeledTrack
          /\ \E labels \in Tracks \ {UnlabeledTrack} :
                 annotations' =
                     [annotations EXCEPT
                         !.identity_labels[last.identity][last.behavior].labels
                             = labels]
    /\ UNCHANGED <<file, pose, entry, result, project, features, disk, runs,
                   caller, widget>>

\* VideoLabels.load(v.export())
ExportAndLoad ==
    /\ annotations.status = "object"
    /\ result = NoResult
    /\ result' = [op |-> "load", v |-> annotations,
                  exported |-> export(annotations),
                  loaded |-> load(export(annotations))]
    /\ UNCHANGED <<file, pose, entry, project, features, disk, runs, caller,
                   annotations, widget>>

\* A VideoLabels object of a video of VideoFrames frames: new, or loaded from
\* a dict that names an identity without tracks.
InitLabels ==
    /\ \E filename \in VideoSet :
           annotations \in
               {VideoLabels(filename, VideoFrames),
                load([file |-> filename, num_frames |-> VideoFrames,
                      labels |-> [identity \in {0} |-> EmptyDict]])}
    /\ file = PoseFile(4, Datasets, SampleDetections)
    /\ pose = NoPose
    /\ entry = "none"
    /\ result = NoResult
    /\ project = NoProject
    /\ features = NoFeatures
    /\ disk = NoDisk
    /\ runs = <<>>
    /\ caller = NoCaller
    /\ widget = NoWidget

NextLabels ==
    \/ GetTrackLabels
    \/ LabelReturnedTrack
    \/ ExportAndLoad

SpecLabels == InitLabels /\ [][NextLabels]_vars

---------------------------------------------------------------------------
(* Project of the labeler *)

MaxCalls == 3           \* calls on a labeler project

\* what a VideoLabels object of the labeler has: the attributes __init__
\* sets and the methods of the class
VideoLabelsAttributes ==
    {"_filename", "_num_frames", "_identity_labels",
     "get_track_labels", "export", "load"}

\* the identity a caller of the labeler labels; identities are strings, as
\* the keys of a JSON object are
LabeledIdentity == "0"

\* the dict an annotation file of the project holds for a video: the first
\* identity labelled for the first behavior
SavedAnnotations(video) ==
    [file |-> video, num_frames |-> VideoFrames,
     labels |-> [identity \in {LabeledIdentity} |->
                    [behavior \in {"walk"} |->
                        BlocksFrom(TailLabeledTrack, 0)]]]

\* Project(project_path) of the labeler
LabelerProject(dir) ==
    [status |-> "open", videos |-> Sort(get_videos(dir)),
     unsaved_annotations |-> EmptyDict]

\* the outcome of a call on the labeler project: the project and the
\* annotation files afterwards, the exception raised, the object returned
Called(proj, annotation_files, raised, returned) ==
    [project |-> proj, annotation_files |-> annotation_files,
     raised |-> raised, returned |-> returned]

\* Project.load_annotation_track(video_name, leave_cached)
load_annotation_track(proj, dir, video_name, leave_cached) ==
    LET video_filename == FileName(video_name)
        unsaved == proj.unsaved_annotations
    IN IF check_video_name(proj, video_filename).status = "raised"
       THEN Called(proj, dir.annotation_files, "ValueError", NoAnnotations)
       ELSE IF video_filename \in DOMAIN unsaved
       THEN Called(IF leave_cached THEN proj
                   ELSE [proj EXCEPT !.unsaved_annotations =
                            [v \in (DOMAIN unsaved) \ {video_filename} |->
                                unsaved[v]]],
                   dir.annotation_files, "", load(unsaved[video_filename]))
       ELSE IF video_filename \in DOMAIN dir.annotation_files
       THEN Called(proj, dir.annotation_files, "",
                   load(JsonLoad(dir.annotation_files[video_filename].text).value))
       ELSE Called(proj, dir.annotation_files, "",
                   VideoLabels(video_filename, VideoFrames))

\* Project.cache_annotations(annotations): it reads annotations.filename and
\* calls annotations.as_dict(), neither of which a VideoLabels of the labeler
\* has; with both, the dict would be stored under the file name
cache_annotations(proj, dir, held) ==
    IF ~({"filename", "as_dict"} \subseteq VideoLabelsAttributes)
    THEN Called(proj, dir.annotation_files, "AttributeError", NoAnnotations)
    ELSE Called([proj EXCEPT !.unsaved_annotations =
                    SetItem(@, held.filename, export(held))],
                dir.annotation_files, "", NoAnnotations)

\* Project.save_cached_annotations()
save_cached_annotations(proj, dir) ==
    Called(proj,
           [v \in (DOMAIN dir.annotation_files)
                      \cup (DOMAIN proj.unsaved_annotations) |->
               IF v \in DOMAIN proj.unsaved_annotations
               THEN JsonFile(JsonDump(proj.unsaved_annotations[v]))
               ELSE dir.annotation_files[v]],
           "", NoAnnotations)

\* the entry of the call log for a call on the labeler project
Logged(op, video, leave_cached, held, proj, dir, called) ==
    [op |-> op, video |-> video, leave_cached |-> leave_cached, held |-> held,
     unsaved_before |-> proj.unsaved_annotations,
     files_before |-> dir.annotation_files,
     unsaved_after |-> called.project.unsaved_annotations,
     files_after |-> called.annotation_files,
     raised |-> called.raised, returned |-> called.returned]

NewLabelerProject ==
    /\ disk # NoDisk
    /\ project = NoProject
    /\ project' = LabelerProject(disk)
    /\ UNCHANGED <<file, pose, entry, result, features, disk, runs, caller,
                   annotations, widget>>

\* the caller loads the annotations of a video and holds the object
LoadAnnotationTrack ==
    /\ project.status = "open"
    /\ Len(runs) < MaxCalls
    /\ \E name \in VideoSet \cup {StrayVideo}, leave_cached \in BOOLEAN :
           LET video_name == [parent |-> "project", name |-> name]
               called == load_annotation_track(project, disk, video_name,
                                               leave_cached)
           IN /\ project' = called.project
              /\ annotations' = IF called.raised = "" THEN called.returned
                                ELSE annotations
              /\ runs' = Append(runs,
                                Logged("load_annotation_track", name,
                                       leave_cached, NoAnnotations, project,
                                       disk, called))
    /\ UNCHANGED <<file, pose, entry, result, features, disk, caller, widget>>

\* the caller labels the held object: the track of the labelled identity
\* for the second behavior, while it has no label yet
LabelHeldTrack ==
    /\ project.status = "open"
    /\ annotations.status = "object"
    /\ LET got == get_track_labels(annotations, LabeledIdentity, "rear")
       IN /\ got.track.labels = UnlabeledTrack
          /\ annotations' =
                 [got.self EXCEPT
                     !.identity_labels[LabeledIdentity]["rear"].labels
                         = EndsLabeledTrack]
    /\ UNCHANGED <<file, pose, entry, result, project, features, disk, runs,
                   caller, widget>>

\* the caller hands the held object to the cache
CacheAnnotations ==
    /\ project.status = "open"
    /\ annotations.status = "object"
    /\ Len(runs) < MaxCalls
    /\ LET called == cache_annotations(project, disk, annotations)
       IN /\ project' = called.project
          /\ runs' = Append(runs,
                            Logged("cache_annotations", annotations.filename,
                                   FALSE, annotations, project, disk, called))
    /\ UNCHANGED <<file, pose, entry, result, features, disk, caller,
                   annotations, widget>>

SaveCachedAnnotations ==
    /\ project.status = "open"
    /\ Len(runs) < MaxCalls
    /\ LET called == save_cached_annotations(project, disk)
       IN /\ disk' = [disk EXCEPT !.annotation_files = called.annotation_files]
          /\ runs' = Append(runs,
                            Logged("save_cached_annotations", "", FALSE,
                                   NoAnnotations, project, disk, called))
    /\ UNCHANGED <<file, pose, entry, result, project, features, caller,
                   annotations, widget>>

\* A project directory of the labeler: any of the videos, listed by glob
\* last name first, each with an annotation file or none.
InitLabeler ==
    /\ \E S \in SUBSET VideoSet :
       \E listing \in {l \in Listings(S) :
                          \A j, k \in DOMAIN l : j < k => Rank(l[j]) > Rank(l[k])} :
       \E annotated \in SUBSET S :
           disk = [status |-> "dir", listing |-> listing,
                   annotation_files |->
                       [v \in annotated |->
                           JsonFile(JsonDump(SavedAnnotations(v)))]]
    /\ file = PoseFile(4, Datasets, SampleDetections)
    /\ pose = NoPose
    /\ entry = "none"
    /\ result = NoResult
    /\ project = NoProject
    /\ features = NoFeatures
    /\ runs = <<>>
    /\ caller = NoCaller
    /\ annotations = NoAnnotations
    /\ widget = NoWidget

NextLabeler ==
    \/ NewLabelerProject
    \/ LoadAnnotationTrack
    \/ LabelHeldTrack
    \/ CacheAnnotations
    \/ SaveCachedAnnotations

SpecLabeler == InitLabeler /\ [][NextLabeler]_vars

---------------------------------------------------------------------------
(* Predictions, classifiers and the archive of a project *)

\* behavior names of a project and Project.to_safe_name of each: runs of
\* characters other than letters and digits become one underscore, and
\* trailing underscores are dropped
ProjectBehaviors == {"walk", "rear up", "walk!"}

to_safe_name(behavior) ==
    CASE behavior = "walk" -> "walk"
      [] behavior = "rear up" -> "rear_up"
      [] behavior = "walk!" -> "walk"

\* the manual labels of an identity for a behavior: the annotations of the
\* project label the first behavior only
ManualLabels(proj, video, identity, behavior) ==
    IF behavior = "walk" THEN proj.labels[video][identity] ELSE UnlabeledTrack

\* int(identity) of a key str(i)
IdentityIndex(identity) ==
    CHOOSE i \in 0 .. MaxIdentities : ToString(i) = identity

\* the elements of a set of frames in ascending order
RECURSIVE Ascend(_)
Ascend(S) ==
    IF S = {} THEN <<>>
    ELSE LET least == CHOOSE x \in S : \A y \in S : x <= y
         IN <<least>> \o Ascend(S \ {least})

\* np.int8 of an integer
Int8(x) == ((x + 128) % 256) - 128

\* probabilities are counted in quarters, which np.float32 holds exactly:
\* 2, 3, 4 stand for 0.5, 0.75, 1.0 and -4 for the -1.0 of a manual label
Float32(quarters) == quarters
ManualProbability == -4

\* what the classifier hands to save_predictions for one identity of a video:
\* classes and probabilities of the inferred frames, in frame order
Inferred(frames, classes, i) ==
    LET indexes == Ascend(frames)
    IN [frame_indexes |-> indexes,
        predictions |-> [k \in DOMAIN indexes |-> classes[indexes[k]]],
        probabilities |-> [k \in DOMAIN indexes |-> 2 + ((indexes[k] + i) % 3)]]

\* the arguments of save_predictions: a dict per video with an entry per
\* identity of the video
Inference(proj, frames, classes) ==
    [v \in VideoNamesOf(proj) |->
        [identity \in {ToString(i) : i \in 0 .. (proj.num_identities[v] - 1)} |->
            Inferred(frames, classes, IdentityIndex(identity))]]

\* arr[inferred_indexes] = values, on one row
Assigned(row, indexes, values) ==
    [f \in DOMAIN row |->
        IF \E k \in DOMAIN indexes : indexes[k] = f
        THEN values[Max({k \in DOMAIN indexes : indexes[k] = f})]
        ELSE row[f]]

\* arr[manual_labels == label] = value, on one row
ManualLabelsWritten(row, manual_labels, label, value) ==
    [f \in DOMAIN row |-> IF manual_labels[f] = label THEN value ELSE row[f]]

\* the rows save_predictions writes for one identity of a video
PredictionRows(proj, video, identity, behavior, inferred) ==
    LET manual_labels ==
            ManualLabels(proj, video, IdentityIndex(identity), behavior)
        inferred_class ==
            Assigned([f \in VideoFrameRange |-> Int8(-1)],
                     inferred.frame_indexes,
                     [k \in DOMAIN inferred.predictions |->
                         Int8(inferred.predictions[k])])
        inferred_prob ==
            Assigned([f \in VideoFrameRange |-> Float32(0)],
                     inferred.frame_indexes,
                     [k \in DOMAIN inferred.probabilities |->
                         Float32(inferred.probabilities[k])])
    IN [predicted_class |->
            ManualLabelsWritten(
                ManualLabelsWritten(inferred_class, manual_labels,
                                    NOT_BEHAVIOR, Int8(NOT_BEHAVIOR)),
                manual_labels, BEHAVIOR, Int8(BEHAVIOR)),
        probabilities |->
            ManualLabelsWritten(
                ManualLabelsWritten(inferred_prob, manual_labels,
                                    NOT_BEHAVIOR, Float32(ManualProbability)),
                manual_labels, BEHAVIOR, Float32(ManualProbability))]

PREDICTION_FILE_VERSION == 1

\* poses.identity_to_track of the pose file of a video: None for
\* PoseEstimationV4, the track of each identity for the other readers
identity_to_track(dir, video) ==
    IF dir.pose[video] = "_pose_est_v4.h5" THEN [has |-> FALSE]
    ELSE [has |-> TRUE, v |-> Range(dir.identities[video])]

\* the datasets save_predictions has ready to write for a video
PredictionFile(proj, video, behavior, inference) ==
    LET rows == [i \in 0 .. (proj.num_identities[video] - 1) |->
                    IF ToString(i) \in DOMAIN inference[video]
                    THEN PredictionRows(proj, video, ToString(i), behavior,
                                        inference[video][ToString(i)])
                    ELSE [predicted_class |-> [f \in VideoFrameRange |-> Int8(-1)],
                          probabilities |-> [f \in VideoFrameRange |-> Float32(0)]]]
    IN [version |-> PREDICTION_FILE_VERSION,
        predicted_class |-> [i \in DOMAIN rows |-> rows[i].predicted_class],
        probabilities |-> [i \in DOMAIN rows |-> rows[i].probabilities]]

\* the loop of save_predictions over the videos: h5py's create_dataset
\* raises TypeError for data=None, after the file got its attribute and the
\* datasets written before
RECURSIVE SaveLoop(_, _, _, _, _, _)
SaveLoop(proj, dir, prediction_dir, inference, behavior, videos) ==
    IF videos = <<>> THEN [prediction_dir |-> prediction_dir, raised |-> ""]
    ELSE LET video == Head(videos)
             safe == to_safe_name(behavior)
             h5 == PredictionFile(proj, video, behavior, inference)
             written ==
                 SetItem(prediction_dir, safe,
                         SetItem(Get(prediction_dir, safe, EmptyDict), video, h5))
         IN IF identity_to_track(dir, video).has
            THEN SaveLoop(proj, dir, written, inference, behavior, Tail(videos))
            ELSE [prediction_dir |-> written, raised |-> "TypeError"]

\* Project.save_predictions: the prediction directory afterwards, with the
\* files written under the safe name of the behavior, and the exception
save_predictions(proj, dir, inference, behavior) ==
    SaveLoop(proj, dir, dir.predictions, inference, behavior, proj.videos)

\* Project.load_predictions: the three dicts
load_predictions(proj, prediction_dir, video, behavior) ==
    LET safe == to_safe_name(behavior)
        nident == proj.metadata["video_files"][video]["identities"]
        none == [predictions |-> EmptyDict, probabilities |-> EmptyDict,
                 frame_indexes |-> EmptyDict]
    IN IF safe \notin DOMAIN prediction_dir
          \/ video \notin DOMAIN prediction_dir[safe]
       THEN none
       ELSE LET h5 == prediction_dir[safe][video]
                kept(i) ==
                    Ascend({f \in DOMAIN h5.predicted_class[i] :
                               /\ h5.probabilities[i][f] # ManualProbability
                               /\ h5.predicted_class[i][f] # -1})
                names == {ToString(i) : i \in 0 .. (nident - 1)}
            IN IF h5.version # PREDICTION_FILE_VERSION
                  \/ Cardinality(DOMAIN h5.predicted_class) # nident
               THEN none
               ELSE [predictions |->
                        [n \in names |->
                            [k \in DOMAIN kept(IdentityIndex(n)) |->
                                h5.predicted_class[IdentityIndex(n)]
                                    [kept(IdentityIndex(n))[k]]]],
                     probabilities |->
                        [n \in names |->
                            [k \in DOMAIN kept(IdentityIndex(n)) |->
                                h5.probabilities[IdentityIndex(n)]
                                    [kept(IdentityIndex(n))[k]]]],
                     frame_indexes |->
                        [n \in names |-> kept(IdentityIndex(n))]]

\* save_predictions for a behavior, while nothing is saved; the version in the metadata is the
\* running one since __init__, so __update_version saves nothing
SavePredictions ==
    /\ project.status = "open"
    /\ disk.predictions = EmptyDict
    /\ Len(runs) < MaxRuns
    /\ \E frames \in SUBSET VideoFrameRange,
          classes \in [VideoFrameRange -> {NOT_BEHAVIOR, BEHAVIOR}],
          behavior \in ProjectBehaviors :
           LET inference == Inference(project, frames, classes)
               saved == save_predictions(project, disk, inference, behavior)
           IN /\ disk' = [disk EXCEPT !.predictions = saved.prediction_dir]
              /\ runs' = Append(runs,
                                [op |-> "save_predictions",
                                 behavior |-> behavior,
                                 inference |-> inference,
                                 raised |-> saved.raised,
                                 prediction_dir |-> saved.prediction_dir])
    /\ UNCHANGED <<file, pose, entry, result, project, features, caller,
                   annotations, widget>>

LoadPredictions ==
    /\ project.status = "open"
    /\ Len(runs) < MaxRuns
    /\ \E video \in VideoNamesOf(project), behavior \in ProjectBehaviors :
           runs' = Append(runs,
                          [op |-> "load_predictions", video |-> video,
                           behavior |-> behavior,
                           returned |-> load_predictions(project,
                                                         disk.predictions,
                                                         video, behavior)])
    /\ UNCHANGED <<file, pose, entry, result, project, features, disk, caller,
                   annotations, widget>>

\* An open project over the videos, each with a V3 or V4 pose file, all of
\* one or all of MaxIdentities identities, and no prediction saved yet.
InitPredictions ==
    /\ \E n \in {1, MaxIdentities} :
       \E pose_of \in [VideoSet -> {"_pose_est_v3.h5", "_pose_est_v4.h5"}] :
           LET dir == [predictions |-> EmptyDict]
                          @@ Dir(Videos, pose_of, [v \in VideoSet |-> n], {},
                                 MissingFile)
               made == Project(dir, FALSE)
           IN /\ project = made.project
              /\ disk = made.disk
    /\ file = PoseFile(4, Datasets, SampleDetections)
    /\ pose = NoPose
    /\ entry = "none"
    /\ result = NoResult
    /\ features = NoFeatures
    /\ runs = <<>>
    /\ caller = NoCaller
    /\ annotations = NoAnnotations
    /\ widget = NoWidget

NextPredictions ==
    \/ SavePredictions
    \/ LoadPredictions

SpecPredictions == InitPredictions /\ [][NextPredictions]_vars

---------------------------------------------------------------------------
(* Project.archive_behavior *)

\* VideoLabels.as_dict() of the project's VideoLabels: the dict export()
\* gives
as_dict(self) == export(self)

\* the object Project.load_video_labels returns for a project video
LoadedVideoLabels(dir, video) ==
    IF video \in DOMAIN dir.annotation_files
    THEN load(JsonLoad(dir.annotation_files[video].text).value)
    ELSE VideoLabels(video, VideoFrames)

\* Project.save_annotations: the annotation files afterwards; the version in
\* the metadata is the running one, so __update_version saves nothing
save_annotations(annotation_files, labelled) ==
    SetItem(annotation_files, labelled.filename,
            JsonFile(JsonDump(as_dict(labelled))))

\* a dict that keeps the entry of the behavior
NotPopped(d, behavior) == d

\* the dict after d.pop(behavior)
Popped(d, behavior) == [k \in (DOMAIN d) \ {behavior} |-> d[k]]

\* the loop of archive_behavior over the videos: the annotation files and
\* the archived labels afterwards
RECURSIVE ArchiveLoop(_, _, _, _)
ArchiveLoop(dir, archived_labels, behavior, videos) ==
    IF videos = <<>>
    THEN [annotation_files |-> dir.annotation_files,
          archived_labels |-> archived_labels]
    ELSE LET video == Head(videos)
             loaded == as_dict(LoadedVideoLabels(dir, video))
             labelled == {ident \in DOMAIN loaded.labels :
                             behavior \in DOMAIN loaded.labels[ident]}
             archived ==
                 IF labelled = {} THEN archived_labels
                 ELSE SetItem(archived_labels, video,
                              [k \in {"num_frames", behavior} |->
                                  IF k = "num_frames" THEN loaded.num_frames
                                  ELSE [ident \in labelled |->
                                           loaded.labels[ident][behavior]]])
             kept == [loaded EXCEPT !.labels =
                         [ident \in DOMAIN loaded.labels |->
                             IF ident \in labelled
                             THEN Popped(loaded.labels[ident], behavior)
                             ELSE loaded.labels[ident]]]
             saved == save_annotations(dir.annotation_files, load(kept))
         IN ArchiveLoop([dir EXCEPT !.annotation_files = saved], archived,
                        behavior, Tail(videos))

\* Project.archive_behavior at the second ts: the project directory afterwards
archive_behavior(proj, dir, behavior, ts) ==
    LET safe_behavior == to_safe_name(behavior)
        looped == ArchiveLoop(dir, EmptyDict, behavior, proj.videos)
    IN [dir EXCEPT
           !.predictions = [s \in (DOMAIN dir.predictions) \ {safe_behavior} |->
                               dir.predictions[s]],
           !.classifiers = dir.classifiers \ {safe_behavior},
           !.annotation_files = looped.annotation_files,
           !.archive = SetItem(dir.archive, <<safe_behavior, ts>>,
                               JsonDump(looped.archived_labels))]

\* annotation files of a video, by the number of a pattern: one identity
\* labelled for one behavior; two identities and two behaviors; an identity
\* without tracks and one labelled for two behaviors of the same safe name
AnnotationFile(video, pattern) ==
    LET tail == BlocksFrom(TailLabeledTrack, 0)
        ends == BlocksFrom(EndsLabeledTrack, 0)
        labels ==
            CASE pattern = 1 -> [ident \in {"0"} |-> [b \in {"walk"} |-> tail]]
              [] pattern = 2 ->
                     [ident \in {"0", "1"} |->
                         IF ident = "0"
                         THEN [b \in {"walk", "rear up"} |->
                                  IF b = "walk" THEN ends ELSE tail]
                         ELSE [b \in {"rear up"} |-> ends]]
              [] OTHER ->
                     [ident \in {"0", "1"} |->
                         IF ident = "0" THEN EmptyDict
                         ELSE [b \in {"walk", "walk!"} |->
                                  IF b = "walk" THEN tail ELSE ends]]
    IN JsonFile(JsonDump([file |-> video, num_frames |-> VideoFrames,
                          labels |-> labels]))

ArchiveBehavior ==
    /\ project.status = "open"
    /\ Len(runs) < MaxRuns
    /\ \E behavior \in ProjectBehaviors :
           LET ts == disk.clock + 1
               archived == archive_behavior(project, disk, behavior, ts)
           IN /\ disk' = [archived EXCEPT !.clock = ts]
              /\ runs' = Append(runs,
                                [op |-> "archive_behavior",
                                 behavior |-> behavior, ts |-> ts,
                                 before |-> disk, after |-> archived])
    /\ UNCHANGED <<file, pose, entry, result, project, features, caller,
                   annotations, widget>>

\* An open project over the videos, each with an annotation file or none,
\* with predictions and a classifier saved for some behaviors and an empty
\* archive.
InitArchive ==
    /\ \E S \in SUBSET VideoSet :
       \E pattern \in [S -> 1 .. 3] :
       \E predicted \in SUBSET {"walk", "rear_up"} :
       \E classifiers \in SUBSET {"walk", "rear_up"} :
           disk = [status |-> "dir", listing |-> Videos,
                   annotation_files |->
                       [v \in S |-> AnnotationFile(v, pattern[v])],
                   predictions |-> [s \in predicted |-> "h5 files"],
                   classifiers |-> classifiers,
                   archive |-> EmptyDict,
                   clock |-> 0]
    /\ project = [status |-> "open", videos |-> Videos]
    /\ file = PoseFile(4, Datasets, SampleDetections)
    /\ pose = NoPose
    /\ entry = "none"
    /\ result = NoResult
    /\ features = NoFeatures
    /\ runs = <<>>
    /\ caller = NoCaller
    /\ annotations = NoAnnotations
    /\ widget = NoWidget

NextArchive == ArchiveBehavior

SpecArchive == InitArchive /\ [][NextArchive]_vars

---------------------------------------------------------------------------
(* MainControlWidget *)

\* behavior names a user may enter and static objects a pose file may hold
WidgetBehaviors == {"walk", "rear"}

StaticObjects == {"corner"}

\* objects asked about: the ones of the pose file and one never registered
AskedObjects == StaticObjects \cup {"lixit"}

\* the check box attributes MainControlWidget.__init__ assigns
CheckboxAttributes ==
    {"_use_balace_labels_checkbox", "_symmetric_behavior_checkbox",
     "_all_kfold_checkbox"}

\* a QComboBox: the texts of its items and the index of the current one,
\* -1 without one
ComboBox(items, index) == [items |-> items, index |-> index]

\* QComboBox.currentText
CurrentText(box) == IF box.index = -1 THEN "" ELSE box.items[box.index + 1]

\* QComboBox.findText with MatchExactly: the index of the first item with
\* the text, -1 without one
FindText(box, text) ==
    IF \E i \in DOMAIN box.items : box.items[i] = text
    THEN (CHOOSE i \in DOMAIN box.items :
              /\ box.items[i] = text
              /\ \A j \in 1 .. (i - 1) : box.items[j] # text) - 1
    ELSE -1

\* QComboBox.addItem: the first item of an empty box becomes the current one
AddItem(box, text) ==
    ComboBox(Append(box.items, text),
             IF box.items = <<>> THEN 0 ELSE box.index)

\* QComboBox.removeItem: items before the current one shift it down, the
\* current one is followed by the item taking its row, or the last one
RemoveItem(box, idx) ==
    LET items == [i \in 1 .. (Len(box.items) - 1) |->
                     IF i <= idx THEN box.items[i] ELSE box.items[i + 1]]
    IN ComboBox(items,
                IF items = <<>> THEN -1
                ELSE IF idx < box.index THEN box.index - 1
                ELSE IF box.index > Len(items) - 1 THEN Len(items) - 1
                ELSE box.index)

\* a QCheckBox
CheckBox(enabled, checked) == [enabled |-> enabled, checked |-> checked]

\* MainControlWidget.__init__
MainControlWidget ==
    [status |-> "widget",
     behaviors |-> EmptyDict,
     behavior_selection |-> ComboBox(<<>>, -1),
     use_static_object_features |-> EmptyDict,
     use_balace_labels_checkbox |-> CheckBox(TRUE, FALSE),
     symmetric_behavior_checkbox |-> CheckBox(TRUE, FALSE),
     label_behavior_button |-> ""]

\* MainControlWidget.current_behavior
current_behavior(self) == CurrentText(self.behavior_selection)

\* what a call did: the widget afterwards, the exception raised, the signals
\* emitted and the value returned
Did(self, raised, emitted, returned) ==
    [self |-> self, raised |-> raised, emitted |-> emitted,
     returned |-> returned]

None == [none |-> TRUE]

ReturnValue(v) == [none |-> FALSE, v |-> v]

\* MainControlWidget._behavior_changed, connected to currentIndexChanged of
\* the behavior selection: runs when a change of the box moved the current
\* item
BehaviorChanged(self, box) ==
    IF box.index # self.behavior_selection.index
    THEN Did([self EXCEPT !.behavior_selection = box,
                          !.label_behavior_button = CurrentText(box)],
             "none", <<[signal |-> "behavior_changed",
                        payload |-> CurrentText(box)]>>, None)
    ELSE Did([self EXCEPT !.behavior_selection = box], "none", <<>>, None)

\* MainControlWidget._new_label, the dialog closed with text and ok
NewLabelEntered(self, text, ok) ==
    IF ok /\ text \notin DOMAIN self.behaviors
    THEN LET added == BehaviorChanged(
                          [self EXCEPT !.behaviors =
                                           SetItem(self.behaviors, text, EmptyDict)],
                          AddItem(self.behavior_selection, text))
             box == added.self.behavior_selection
             selected == BehaviorChanged(
                             added.self, ComboBox(box.items, FindText(box, text)))
         IN Did(selected.self, "none",
                added.emitted \o selected.emitted
                    \o <<[signal |-> "behavior_list_changed",
                          payload |-> selected.self.behaviors]>>, None)
    ELSE Did(self, "none", <<>>, None)

\* MainControlWidget.remove_behavior: _behaviors is a dict, which has no
\* remove
remove_behavior(self, behavior) ==
    LET idx == FindText(self.behavior_selection, behavior)
    IN IF idx # -1
       THEN LET removed == BehaviorChanged(
                               self, RemoveItem(self.behavior_selection, idx))
            IN Did(removed.self, "AttributeError", removed.emitted, None)
       ELSE Did(self, "none",
                <<[signal |-> "behavior_list_changed",
                   payload |-> self.behaviors]>>, None)

\* MainControlWidget.enable_static_objects
enable_static_objects(self, object_list) ==
    [self EXCEPT !.use_static_object_features =
        [obj \in (DOMAIN @) \cup object_list |->
            IF obj \in object_list THEN EmptyDict ELSE @[obj]]]

\* MainControlWidget.toggle_static_object_features
toggle_static_object_features(self, val, obj) ==
    IF obj \in DOMAIN self.use_static_object_features
    THEN [self EXCEPT !.use_static_object_features[obj] =
             SetItem(@, current_behavior(self), val)]
    ELSE self

\* MainControlWidget.get_static_object_features: the value returned; the
\* branch of a registered object evaluates the lookup and returns nothing
get_static_object_features(self, obj) ==
    IF obj \in DOMAIN self.use_static_object_features
    THEN None
    ELSE ReturnValue(FALSE)

\* the setter of MainControlWidget.use_balance_labels
use_balance_labels(self, val) ==
    IF self.use_balace_labels_checkbox.enabled
    THEN [self EXCEPT !.use_balace_labels_checkbox.checked = val]
    ELSE self

\* the setter of MainControlWidget.use_symmetric
use_symmetric(self, val) ==
    IF self.symmetric_behavior_checkbox.enabled
    THEN [self EXCEPT !.symmetric_behavior_checkbox.checked = val]
    ELSE self

\* MainControlWidget.set_use_balance_labels_checkbox_enabled
set_use_balance_labels_checkbox_enabled(self, val) ==
    IF "_use_balace_labels_checkbox" \in CheckboxAttributes
    THEN Did([self EXCEPT !.use_balace_labels_checkbox =
                 CheckBox(val, IF val THEN @.checked ELSE FALSE)],
             "none", <<>>, None)
    ELSE Did(self, "AttributeError", <<>>, None)

\* MainControlWidget.set_use_symmetric_checkbox_enabled
set_use_symmetric_checkbox_enabled(self, val) ==
    IF "_use_symmetric_checkbox" \in CheckboxAttributes
    THEN Did([self EXCEPT !.symmetric_behavior_checkbox =
                 CheckBox(val, IF val THEN @.checked ELSE FALSE)],
             "none", <<>>, None)
    ELSE Did(self, "AttributeError", <<>>, None)

\* the call made last on the widget
WidgetCall(op, args, before, did) ==
    [op |-> op, args |-> args, before |-> before, after |-> did.self,
     raised |-> did.raised, emitted |-> did.emitted, returned |-> did.returned]

WidgetUnchanged ==
    UNCHANGED <<file, pose, entry, project, features, disk, runs, caller,
                annotations>>

NewLabel ==
    /\ widget.status = "widget"
    /\ \E text \in WidgetBehaviors, ok \in BOOLEAN :
           LET did == NewLabelEntered(widget, text, ok)
           IN /\ widget' = did.self
              /\ result' = WidgetCall("_new_label", <<text, ok>>, widget, did)
    /\ WidgetUnchanged

SelectBehavior ==
    /\ widget.status = "widget"
    /\ \E index \in 0 .. (Len(widget.behavior_selection.items) - 1) :
           LET did == BehaviorChanged(
                          widget, ComboBox(widget.behavior_selection.items, index))
           IN /\ index # widget.behavior_selection.index
              /\ widget' = did.self
              /\ result' = WidgetCall("_behavior_changed", <<index>>, widget, did)
    /\ WidgetUnchanged

RemoveBehavior ==
    /\ widget.status = "widget"
    /\ \E behavior \in WidgetBehaviors :
           LET did == remove_behavior(widget, behavior)
           IN /\ widget' = did.self
              /\ result' = WidgetCall("remove_behavior", <<behavior>>, widget, did)
    /\ WidgetUnchanged

EnableStaticObjects ==
    /\ widget.status = "widget"
    /\ \E object_list \in SUBSET StaticObjects :
           /\ widget' = enable_static_objects(widget, object_list)
           /\ result' = WidgetCall("enable_static_objects", <<object_list>>, widget,
                             Did(widget', "none", <<>>, None))
    /\ WidgetUnchanged

ToggleStaticObjectFeatures ==
    /\ widget.status = "widget"
    /\ \E val \in BOOLEAN, obj \in AskedObjects :
           /\ widget' = toggle_static_object_features(widget, val, obj)
           /\ result' = WidgetCall("toggle_static_object_features", <<val, obj>>,
                             widget, Did(widget', "none", <<>>, None))
    /\ WidgetUnchanged

GetStaticObjectFeatures ==
    /\ widget.status = "widget"
    /\ \E obj \in AskedObjects :
           result' = WidgetCall("get_static_object_features", <<obj>>, widget,
                          Did(widget, "none", <<>>,
                              get_static_object_features(widget, obj)))
    /\ UNCHANGED widget
    /\ WidgetUnchanged

UseBalanceLabels ==
    /\ widget.status = "widget"
    /\ \E val \in BOOLEAN :
           /\ widget' = use_balance_labels(widget, val)
           /\ result' = WidgetCall("use_balance_labels", <<val>>, widget,
                             Did(widget', "none", <<>>, None))
    /\ WidgetUnchanged

UseSymmetric ==
    /\ widget.status = "widget"
    /\ \E val \in BOOLEAN :
           /\ widget' = use_symmetric(widget, val)
           /\ result' = WidgetCall("use_symmetric", <<val>>, widget,
                             Did(widget', "none", <<>>, None))
    /\ WidgetUnchanged

SetUseBalanceLabelsCheckboxEnabled ==
    /\ widget.status = "widget"
    /\ \E val \in BOOLEAN :
           LET did == set_use_balance_labels_checkbox_enabled(widget, val)
           IN /\ widget' = did.self
              /\ result' = WidgetCall("set_use_balance_labels_checkbox_enabled",
                                <<val>>, widget, did)
    /\ WidgetUnchanged

SetUseSymmetricCheckboxEnabled ==
    /\ widget.status = "widget"
    /\ \E val \in BOOLEAN :
           LET did == set_use_symmetric_checkbox_enabled(widget, val)
           IN /\ widget' = did.self
              /\ result' = WidgetCall("set_use_symmetric_checkbox_enabled",
                                <<val>>, widget, did)
    /\ WidgetUnchanged

\* The widget as constructed, before any project is loaded.
InitWidget ==
    /\ widget = MainControlWidget
    /\ result = NoResult
    /\ file = PoseFile(4, Datasets, SampleDetections)
    /\ pose = NoPose
    /\ entry = "none"
    /\ project = NoProject
    /\ features = NoFeatures
    /\ disk = NoDisk
    /\ runs = <<>>
    /\ caller = NoCaller
    /\ annotations = NoAnnotations

NextWidget ==
    \/ NewLabel
    \/ SelectBehavior
    \/ RemoveBehavior
    \/ EnableStaticObjects
    \/ ToggleStaticObjectFeatures
    \/ GetStaticObjectFeatures
    \/ UseBalanceLabels
    \/ UseSymmetric
    \/ SetUseBalanceLabelsCheckboxEnabled
    \/ SetUseSymmetricCheckboxEnabled

SpecWidget == InitWidget /\ [][NextWidget]_vars

---------------------------------------------------------------------------
(* Properties of the pose reader *)

\* the file's rows for slot d of frame fr
FileDet(fr, d) == file.det[<<fr, d>>]

\* the valid detections of frame fr whose embed id names identity j
FileDetectionsOf(fr, j) ==
    {d \in Slots : FileDet(fr, d).id_mask = 0
                   /\ FileDet(fr, d).instance_embed_id - 1 = j}

ConfidenceMask(conf) == [k \in Keypoints |-> conf[k] > 0]

ScaledBy(points, s) == [k \in Keypoints |-> <<points[k][1] * s, points[k][2] * s>>]

\* C1: get_points(f, i) of a loaded V4 object returns (None, None) when
\* identity_mask[i, f] is false and the stored points and point mask of
\* identity i at frame f when it is true; it never raises.
C1_GetPointsReportsAbsence ==
    (IsV4(pose) /\ result.op = "get_points" /\ result.nargs = 2) =>
        /\ result.raised = ""
        /\ IF pose.identity_mask[result.identity][result.frame] = 0
           THEN result.is_none
           ELSE /\ ~result.is_none
                /\ result.points = pose.points[result.identity][result.frame]
                /\ result.mask = pose.point_mask[result.identity][result.frame]

\* an identity that the file counts but that has no confident core keypoint
\* at the frame asked for: the call answered (None, None)
C1_Witness ==
    /\ IsV4(pose) /\ result.op = "get_points" /\ result.nargs = 2
    /\ pose.identity_mask[result.identity][result.frame] = 0
    /\ result.is_none
    /\ \E j \in 0 .. (pose.num_identities - 1) : pose.identity_mask[j][result.frame] = 1

\* C2: get_points(f, i, s) succeeds for every valid (f, i) and scale s, and
\* returns the unscaled points multiplied by s with the mask unchanged.
C2_ScalingIsMultiplicative ==
    (/\ IsV4(pose) /\ result.op = "get_points" /\ result.nargs = 3
     /\ pose.identity_mask[result.identity][result.frame] = 1) =>
        /\ result.raised = ""
        /\ ~result.is_none
        /\ result.points =
               ScaledBy(pose.points[result.identity][result.frame], result.scale)
        /\ result.mask = pose.point_mask[result.identity][result.frame]

C4_MissingStructureIsUnsupportedFormat ==
    (entry = "PoseEstimationV4" /\ file.det = SampleDetections) =>
        IF file.version # NoVersion /\ file.datasets = Datasets
        THEN pose.status = "loaded"
        ELSE pose.status = "raised" /\ pose.error = "UnsupportedFormat"

\* C5 as stated: every valid detection (f, d) is the one stored for identity
\* embed_id - 1 at frame f; entries no valid detection maps to are zero.
C5_EveryValidDetectionStored ==
    IsV4(pose) =>
        /\ \A fr \in Frames, d \in Slots :
               FileDet(fr, d).id_mask = 0 =>
                   LET j == FileDet(fr, d).instance_embed_id - 1
                   IN /\ pose.points[j][fr] = FileDet(fr, d).points
                      /\ pose.point_mask[j][fr] =
                             ConfidenceMask(FileDet(fr, d).confidence)
        /\ \A fr \in Frames, j \in Slots :
               FileDetectionsOf(fr, j) = {} =>
                   /\ pose.points[j][fr] = ZeroPoints
                   /\ pose.point_mask[j][fr] = [k \in Keypoints |-> FALSE]

\* C5, amended: the entry of identity j at frame f holds the points of one
\* valid detection of frame f with embed id j + 1 and the confidence-derived
\* mask of one such detection (of the only one, when the frame has only one);
\* with no such detection it is zero-filled.  Masked detections never
\* contribute.
C5_ScatterOfValidDetections ==
    IsV4(pose) =>
        \A fr \in Frames, j \in Slots :
            IF FileDetectionsOf(fr, j) = {}
            THEN /\ pose.points[j][fr] = ZeroPoints
                 /\ pose.point_mask[j][fr] = [k \in Keypoints |-> FALSE]
            ELSE /\ \E d \in FileDetectionsOf(fr, j) :
                        pose.points[j][fr] = FileDet(fr, d).points
                 /\ \E d \in FileDetectionsOf(fr, j) :
                        pose.point_mask[j][fr] =
                            ConfidenceMask(FileDet(fr, d).confidence)

\* a file with a valid detection, a masked detection that names another
\* identity of the file, and the masked one left out of the arrays
C5_Witness ==
    /\ IsV4(pose)
    /\ \E fr \in Frames, d1 \in Slots, d2 \in Slots :
           /\ FileDet(fr, d1).id_mask = 0
           /\ FileDet(fr, d2).id_mask = 1
           /\ FileDet(fr, d2).instance_embed_id \in 1 .. NumSlots
           /\ FileDet(fr, d2).instance_embed_id # FileDet(fr, d1).instance_embed_id
           /\ pose.points[FileDet(fr, d1).instance_embed_id - 1][fr] =
                  FileDet(fr, d1).points
           /\ pose.points[FileDet(fr, d2).instance_embed_id - 1][fr] = ZeroPoints

\* C6: num_identities is the largest instance_embed_id among the detections
\* with id_mask == 0, and identities is 0 .. num_identities - 1 ascending.
C6_NumIdentitiesIsMaxUnmaskedId ==
    IsV4(pose) =>
        /\ \E fr \in Frames, d \in Slots :
               /\ FileDet(fr, d).id_mask = 0
               /\ FileDet(fr, d).instance_embed_id = pose.num_identities
        /\ \A fr \in Frames, d \in Slots :
               FileDet(fr, d).id_mask = 0 =>
                   FileDet(fr, d).instance_embed_id <= pose.num_identities
        /\ Len(pose.identities) = pose.num_identities
        /\ \A k \in 1 .. Len(pose.identities) : pose.identities[k] = k - 1

\* a masked detection carries a larger embed id than every valid one
C6_Witness ==
    /\ IsV4(pose)
    /\ pose.num_identities >= 1
    /\ \E fr \in Frames, d \in Slots :
           /\ FileDet(fr, d).id_mask = 1
           /\ FileDet(fr, d).instance_embed_id > pose.num_identities

\* C7: identity_mask[i, f] is true exactly when one of identity i's
\* keypoints at frame f, the last two excluded, has positive confidence.
C7_IdentityMaskFromCoreKeypoints ==
    IsV4(pose) =>
        \A i \in 0 .. (pose.num_identities - 1), fr \in Frames :
            (pose.identity_mask[i][fr] = 1) <=>
                (\E k \in Keypoints :
                     k < NumKeypoints - 2 /\ pose.point_mask[i][fr][k])

\* an identity whose only confident keypoints at a frame are the last two
C7_Witness ==
    /\ IsV4(pose)
    /\ \E i \in 0 .. (pose.num_identities - 1), fr \in Frames :
           /\ pose.identity_mask[i][fr] = 0
           /\ \E k \in Keypoints : pose.point_mask[i][fr][k]

---------------------------------------------------------------------------
(* Properties of get_labeled_features *)

\* the (video, identity) pairs of the project in traversal order: videos in
\* list order, identities ascending
RECURSIVE PairsFrom(_)
PairsFrom(v) ==
    IF v > Len(project.videos) THEN <<>>
    ELSE [i \in 1 .. project.num_identities[project.videos[v]] |->
             [video |-> project.videos[v], identity |-> i - 1]]
         \o PairsFrom(v + 1)
PairList == PairsFrom(1)

TrackOfPair(p) == project.labels[p.video][p.identity]

\* the frames of a pair that carry a label
LabeledFrames(p) == {f \in VideoFrameRange : TrackOfPair(p)[f] # NONE}

\* the rows of a pair's per-frame feature arrays
FeatureRows(p) == Len(get_per_frame(get_labels(TrackOfPair(p))).angles)

RECURSIVE RunningSums(_, _, _)
\* <<0, c[1], c[1] + c[2], ...>>
RunningSums(counts, j, acc) ==
    IF j > Len(counts) THEN <<acc>>
    ELSE <<acc>> \o RunningSums(counts, j + 1, acc + counts[j])

\* the offsets at which the blocks of the pairs start, and the total
RowOffsets(pairs) ==
    RunningSums([j \in 1 .. Len(pairs) |-> FeatureRows(pairs[j])] \o <<>>, 1, 0)
LabelOffsets(pairs) ==
    RunningSums([j \in 1 .. Len(pairs) |-> Cardinality(LabeledFrames(pairs[j]))]
                \o <<>>, 1, 0)

\* the pair whose block holds entry k, given the offsets of the blocks
BlockOf(offsets, k) ==
    1 + Cardinality({j \in 1 .. (Len(offsets) - 1) : offsets[j + 1] < k})

FeaturesReturned == features.status = "returned"

\* C8: groups is constant within the block of each (video, identity) pair and
\* strictly increases from one block to the next, so that no two pairs share
\* a group id.
C8_GroupsConstantThenIncreasing ==
    FeaturesReturned =>
        LET offsets == RowOffsets(PairList)
            block == [k \in 1 .. Len(features.groups) |-> BlockOf(offsets, k)]
                     \o <<>>
        IN \A k1 \in 1 .. Len(features.groups), k2 \in 1 .. Len(features.groups) :
               /\ block[k1] = block[k2] =>
                      features.groups[k1] = features.groups[k2]
               /\ block[k1] < block[k2] =>
                      features.groups[k1] < features.groups[k2]

\* two pairs with labelled frames, one of them with several
C8_Witness ==
    /\ FeaturesReturned
    /\ \E k \in 1 .. (Len(features.groups) - 2) :
           /\ features.groups[k] = features.groups[k + 1]
           /\ features.groups[k + 1] < features.groups[k + 2]

\* C9: the block of group g has as many entries as the rows of that
\* identity's per-frame feature arrays, and the groups are numbered from 0 in
\* traversal order: for 2 videos of 2 identities, groups is a run of 0s, then
\* of 1s, of 2s and of 3s.
C9_GroupBlocksFollowFeatureRows ==
    FeaturesReturned =>
        LET offsets == RowOffsets(PairList)
        IN /\ Len(features.groups) = offsets[Len(offsets)]
           /\ \A k \in 1 .. Len(features.groups) :
                  features.groups[k] = BlockOf(offsets, k) - 1

C9_Witness ==
    /\ FeaturesReturned
    /\ Len(project.videos) = 2
    /\ \A v \in 1 .. 2 : project.num_identities[project.videos[v]] = 2
    /\ {features.groups[k] : k \in 1 .. Len(features.groups)} = {0, 1, 2, 3}
    /\ Len(features.groups) > 4

\* C10: labels holds BEHAVIOR and NOT_BEHAVIOR only, in the frame order of
\* each identity's track, and is as long as groups, entry k of both
\* belonging to the same (video, identity, frame).
C10_LabelsAlignedWithGroups ==
    FeaturesReturned =>
        LET pairs == PairList
            offsets == LabelOffsets(pairs)
        IN /\ \A k \in 1 .. Len(features.labels) :
                  features.labels[k] \in {BEHAVIOR, NOT_BEHAVIOR}
           /\ Len(features.labels) = Len(features.groups)
           /\ Len(features.labels) = offsets[Len(offsets)]
           /\ \A j \in 1 .. Len(pairs) : \A f \in LabeledFrames(pairs[j]) :
                  LET k == offsets[j] + 1
                           + Cardinality({g \in LabeledFrames(pairs[j]) : g < f})
                  IN /\ k <= Len(features.labels)
                     /\ k <= Len(features.groups)
                     /\ features.labels[k] = TrackOfPair(pairs[j])[f]
                     /\ features.per_frame[k] =
                            [video |-> pairs[j].video,
                             identity |-> pairs[j].identity, frame |-> f]
                     /\ features.groups[k] \in DOMAIN features.group_mapping
                     /\ features.group_mapping[features.groups[k]] = pairs[j]

\* a track with an unlabelled frame before a labelled one, and a track with
\* both labels
C10_Witness ==
    /\ FeaturesReturned
    /\ \E j \in 1 .. Len(PairList) : TrackOfPair(PairList[j]) = TailLabeledTrack
    /\ \E k \in 1 .. (Len(features.labels) - 1) :
           /\ features.labels[k] = NOT_BEHAVIOR
           /\ features.labels[k + 1] = BEHAVIOR
           /\ features.groups[k] = features.groups[k + 1]

\* the (video, identity) pairs of the project
ProjectPairs ==
    {[video |-> project.videos[j], identity |-> i] :
        j \in 1 .. Len(project.videos), i \in 0 .. (MaxIdentities - 1)}
    \cap {p \in [video : VideoSet, identity : 0 .. (MaxIdentities - 1)] :
             p.identity < project.num_identities[p.video]}

\* C12: group_mapping has exactly one entry per (video, identity) pair of the
\* project, its keys are the contiguous ids 0 .. N-1, and group_mapping[g]
\* names the video and the identity of every row that carries g in groups.
C12_GroupMappingNamesEachPair ==
    FeaturesReturned =>
        LET mapping == features.group_mapping
        IN /\ DOMAIN mapping = 0 .. (Cardinality(ProjectPairs) - 1)
           /\ \A p \in ProjectPairs :
                  Cardinality({g \in DOMAIN mapping : mapping[g] = p}) = 1
           /\ \A g \in DOMAIN mapping : mapping[g] \in ProjectPairs
           /\ \A k \in 1 .. Len(features.groups) :
                  /\ features.groups[k] \in DOMAIN mapping
                  /\ mapping[features.groups[k]].video = features.per_frame[k].video
                  /\ mapping[features.groups[k]].identity =
                         features.per_frame[k].identity

\* rows of a second identity of a video, and a pair that has an entry but no
\* labelled frame
C12_Witness ==
    /\ FeaturesReturned
    /\ \E k \in 1 .. Len(features.groups) : features.per_frame[k].identity > 0
    /\ \E g \in DOMAIN features.group_mapping :
           \A k \in 1 .. Len(features.groups) : features.groups[k] # g

\* the positions of the calls of a name made for group id g
CallsOf(calls, name, g) ==
    {k \in 1 .. Len(calls) : calls[k].name = name /\ calls[k].group_id = g}

\* C13: a progress callable given to get_labeled_features is called without
\* arguments exactly once for each (video, identity), after the per-frame and
\* the window features of that identity have been retrieved; the number of
\* calls is the number of group ids assigned.
C13_ProgressOncePerIdentity ==
    (FeaturesReturned /\ features.progress_callable) =>
        LET calls == features.calls
            ids == DOMAIN features.group_mapping
        IN /\ \A g \in ids :
                  /\ Cardinality(CallsOf(calls, "progress_callable", g)) = 1
                  /\ \A k \in CallsOf(calls, "progress_callable", g) :
                         /\ calls[k].args = <<>>
                         /\ \E a \in CallsOf(calls, "get_per_frame", g) : a < k
                         /\ \E b \in CallsOf(calls, "get_window_features", g) :
                                b < k
                         /\ \A j \in 1 .. Len(calls) :
                                calls[j].group_id > g => k < j
           /\ Cardinality({k \in 1 .. Len(calls) :
                              calls[k].name = "progress_callable"})
                  = Cardinality(ids)
           /\ features.progress = Cardinality(ids)

\* a callable was given and the loop went over several identities
C13_Witness ==
    /\ FeaturesReturned
    /\ features.progress_callable
    /\ features.progress > 2
    /\ Len(features.calls) = 4 * features.progress

---------------------------------------------------------------------------
(* Properties of the project *)

ProjectOpen == project.status = "open"

\* pair p comes before pair q in the canonical order
Precedes(p, q) ==
    \/ Rank(p.video) < Rank(q.video)
    \/ p.video = q.video /\ p.identity < q.identity

ReturnedRuns == {r \in 1 .. Len(runs) : runs[r].status = "returned"}

\* C11: every run of get_labeled_features goes over the (video, identity)
\* pairs by ascending file name and, within a video, by ascending identity:
\* the group ids, and so the blocks of rows, follow that order; and two runs
\* over the same project yield the same blocks in the same order.
C11_CanonicalTraversalOrder ==
    /\ \A r \in ReturnedRuns :
           LET mapping == runs[r].group_mapping
               rows == runs[r].per_frame
           IN /\ \A g, h \in DOMAIN mapping :
                     g < h => Precedes(mapping[g], mapping[h])
              /\ \A j, k \in 1 .. Len(rows) :
                     j < k =>
                         \/ Precedes(rows[j], rows[k])
                         \/ /\ rows[j].video = rows[k].video
                            /\ rows[j].identity = rows[k].identity
    /\ \A r, q \in ReturnedRuns :
           /\ runs[r].group_mapping = runs[q].group_mapping
           /\ runs[r].groups = runs[q].groups
           /\ runs[r].per_frame = runs[q].per_frame

\* two runs over a project whose directory lists a later name first, with
\* rows of two identities of one video
C11_Witness ==
    /\ ProjectOpen
    /\ Len(runs) = 2
    /\ ReturnedRuns = {1, 2}
    /\ Len(disk.listing) > 1
    /\ Rank(disk.listing[1]) > Rank(disk.listing[2])
    /\ \E j, k \in 1 .. Len(runs[2].per_frame) :
           /\ runs[2].per_frame[j].video = runs[2].per_frame[k].video
           /\ runs[2].per_frame[j].identity < runs[2].per_frame[k].identity

\* the videos of the directory whose pose file is a V3 file
V3Videos == {v \in DOMAIN disk.pose : disk.pose[v] = "_pose_est_v3.h5"}

\* every video has a pose file, some a V3 file and some another
MixedPoseFiles ==
    /\ disk # NoDisk
    /\ \A v \in DOMAIN disk.pose : disk.pose[v] # NoPoseFile
    /\ V3Videos # {}
    /\ V3Videos # DOMAIN disk.pose

\* C16 as stated: a directory that mixes V3 and other pose files yields
\* ValueError, and has_social_features of a constructed project is true
\* exactly when every video of the project has a V3 pose file.
C16_SocialFeaturesIffEveryVideoV3 ==
    /\ (project # NoProject /\ MixedPoseFiles) =>
           project = Raised("ValueError")
    /\ ProjectOpen =>
           (project.has_social_features <=> V3Videos = VideoNamesOf(project))

\* C16 amended: a directory that mixes V3 and other pose files yields
\* ValueError, and has_social_features of a constructed project is true
\* exactly when the project has a video and every video of it has a V3 pose
\* file; it is false for a project without videos.
C16_SocialFeaturesIffNonEmptyAndV3 ==
    /\ (project # NoProject /\ MixedPoseFiles) =>
           project = Raised("ValueError")
    /\ ProjectOpen =>
           (project.has_social_features <=>
                (project.videos # <<>> /\ V3Videos = VideoNamesOf(project)))

\* a project of several V3 videos was constructed
C16_Witness ==
    /\ ProjectOpen
    /\ Len(project.videos) > 1
    /\ project.has_social_features
    /\ V3Videos = VideoNamesOf(project)

\* the project calls that start with check_video_name
NameCheckedOps == {"check_video_name", "load_video_labels", "load_pose_est"}

\* C17: check_video_name raises ValueError for a file name that is not among
\* the videos of the project and nothing otherwise; load_video_labels and
\* load_pose_est for such a name raise ValueError without having read a
\* file; and none of the three calls changes the project or its directory.
C17_UnknownVideoRaisesValueError ==
    [][(result' # result /\ result'.op \in NameCheckedOps) =>
          /\ FileName(result'.path) \notin VideoNamesOf(project) =>
                 (result'.raised = "ValueError" /\ result'.reads = {})
          /\ (result'.op = "check_video_name"
                  /\ FileName(result'.path) \in VideoNamesOf(project)) =>
                 result'.raised = ""
          /\ project' = project
          /\ disk' = disk]_vars

\* load_pose_est was called for a video that is in the directory of another
\* project, and the project has videos of its own
C17_Witness ==
    /\ ProjectOpen
    /\ project.videos # <<>>
    /\ result.op = "load_pose_est"
    /\ FileName(result.path) \notin VideoNamesOf(project)
    /\ result.raised = "ValueError"

---------------------------------------------------------------------------
(* Properties of the project metadata *)

\* the dict that __init__ hands to save_metadata for a directory
ConstructorData(dir, before) ==
    [k \in {"video_files"} |->
        VideoMetadataLoop(dir, Get(before, "video_files", EmptyDict),
                          Sort(get_videos(dir)))]

\* a save_metadata(data) call that left the keys outside data alone and gave
\* every key of data its value, in memory and in the project file
MergedAsGiven(before, data, after, project_file) ==
    /\ project_file.kind = "json"
    /\ project_file.text.json = "object"
    /\ \A k \in (DOMAIN before) \ (DOMAIN data) :
           /\ k \in DOMAIN after
           /\ after[k] = before[k]
           /\ k \in DOMAIN project_file.text.members
           /\ project_file.text.members[k] = before[k]
    /\ \A k \in DOMAIN data :
           /\ k \in DOMAIN after
           /\ after[k] = data[k]
           /\ k \in DOMAIN project_file.text.members
           /\ project_file.text.members[k] = data[k]

\* C18: save_metadata(data), called by a caller or by __init__, leaves every key of the metadata that is not in data as it was, in memory
\* and in the project file, and every key of data takes the value given.
C18_SaveMetadataTouchesOnlyData ==
    [][/\ (result' # result /\ result'.op = "save_metadata") =>
              MergedAsGiven(project.metadata, result'.data, project'.metadata,
                            disk'.project_file)
       /\ (project = NoProject /\ project'.status = "open") =>
              LET before == load_metadata(disk.project_file).value
              IN MergedAsGiven(before, ConstructorData(disk, before),
                               project'.metadata, disk'.project_file)]_vars

\* C19: whatever a caller does to the dict it got from the metadata
\* property, to its keys or to the lists and dicts under them, the metadata
\* of the project stays as it was.
C19_ReturnedMetadataIsDetached ==
    [][(caller # NoCaller /\ caller' # caller) =>
           project'.metadata = project.metadata]_vars

\* C20: load_metadata never raises; it returns the metadata that the project
\* file holds, and an empty dict when the file cannot be opened.
C20_LoadMetadataReturnsSavedOrEmpty ==
    result.op = "load_metadata" =>
        /\ result.outcome.status = "returned"
        /\ (result.project_file.kind = "json"
               /\ result.project_file.text.json = "object") =>
               result.outcome.value = result.project_file.text.members
        /\ result.project_file.kind = "missing" =>
               result.outcome.value = EmptyDict

---------------------------------------------------------------------------
(* Properties of the feature generators *)

\* the window features of the distance generator for the absent identity of
\* the scenario
ScenarioWindow ==
    /\ pose = ScenarioPoses
    /\ features.status = "window"
    /\ features.generator = "distance"
    /\ features.identity = Scenario.absent_identity

ScenarioAbsence == Scenario.absent_first .. Scenario.absent_last

\* the per-frame distance has no value on the frames of the absence, and a
\* value on every other frame
ScenarioPerFrame ==
    \A f \in 0 .. (Scenario.frames - 1) :
        features.per_frame[f].has <=> f \notin ScenarioAbsence

AnglesWindow ==
    /\ features.status = "window"
    /\ features.generator = "closest_fov_angles"

\* the direction d turned by a quarter turns
RECURSIVE Turned(_, _)
Turned(d, quarters) ==
    IF quarters = 0 THEN d ELSE Turned(<<-d[2], d[1]>>, quarters - 1)

\* the per-frame angles, each shifted by a quarter turns and wrapped into
\* [-180, 180)
Shifted(values, quarters) ==
    [f \in DOMAIN values |->
        IF values[f].has
        THEN Value(((values[f].v + 90 * quarters + 180) % 360) - 180)
        ELSE NoValue]

\* the sums of the cosines and sines of the angles of frames S, counted from
\* -180 degrees
ResultantFrom180(values, S) ==
    <<Cardinality({g \in S : values[g].v = -180})
          - Cardinality({g \in S : values[g].v = 0}),
      Cardinality({g \in S : values[g].v = -90})
          - Cardinality({g \in S : values[g].v = 90})>>

\* the window mean is the circular mean over [-180, 180) of the valid angles
\* of the window
MeanIsCircular ==
    \A f \in DOMAIN features.window :
        features.window[f].has =>
            LET r == ResultantFrom180(features.per_frame, features.window[f].used)
                mean == features.window[f].stats.mean
            IN /\ mean.low = -180
               /\ mean.high = 180
               /\ features.window[f].stats.std_dev.low = -180
               /\ features.window[f].stats.std_dev.high = 180
               /\ features.window[f].stats.std_dev.resultant
                      = r[1] * r[1] + r[2] * r[2]
               /\ r # <<0, 0>> =>
                      \E n \in 1 .. Cardinality(features.window[f].used) :
                          r = <<n * mean.turn[1], n * mean.turn[2]>>

\* the window mean of frame f after every angle was shifted by a quarter
\* turns is the window mean before, turned as much
ShiftTurnsMean(f, quarters) ==
    LET shifted == closest_fov_angles_window(pose, features.identity,
                                             features.window_size,
                                             Shifted(features.per_frame, quarters))
    IN /\ shifted[f].has
       /\ shifted[f].stats.mean.low = features.window[f].stats.mean.low
       /\ shifted[f].stats.mean.turn
              = Turned(features.window[f].stats.mean.turn, quarters)

---------------------------------------------------------------------------
(* Properties of the labeler's VideoLabels *)

\* the (identity, behavior) pairs a VideoLabels object holds a track for
TrackSlots(identity_labels) ==
    {<<identity, behavior>> \in (DOMAIN identity_labels) \X Behaviors :
        behavior \in DOMAIN identity_labels[identity]}

\* C23: VideoLabels.load(v.export()) has the file name and the num_frames of
\* v, a track for exactly the (identity, behavior) pairs v has a track for,
\* and in each track the labels of v's track, frame by frame.
C23_LoadOfExportKeepsLabels ==
    (annotations.status = "object" /\ result # NoResult /\ result.op = "load") =>
        LET v == result.v
            loaded == result.loaded
        IN /\ loaded.filename = v.filename
           /\ loaded.num_frames = v.num_frames
           /\ TrackSlots(loaded.identity_labels) = TrackSlots(v.identity_labels)
           /\ \A s \in TrackSlots(v.identity_labels) :
                  /\ DOMAIN loaded.identity_labels[s[1]][s[2]].labels
                         = 0 .. (v.num_frames - 1)
                  /\ loaded.identity_labels[s[1]][s[2]].labels
                         = v.identity_labels[s[1]][s[2]].labels

\* an object with a labelled and an unlabelled track went through export and
\* load, the labelled one holding both classes
C23_Witness ==
    /\ annotations.status = "object"
    /\ result # NoResult
    /\ result.op = "load"
    /\ \E s, t \in TrackSlots(result.v.identity_labels) :
           /\ result.v.identity_labels[s[1]][s[2]].labels = EndsLabeledTrack
           /\ result.v.identity_labels[t[1]][t[2]].labels = UnlabeledTrack
           /\ Len(result.exported.labels[s[1]][s[2]]) = 2

\* C24: get_track_labels(identity, behavior) creates the track the first
\* time it is asked for, with num_frames entries that are all NONE; a later
\* call for the same pair returns the object the VideoLabels already holds,
\* labels included; no call adds, removes or changes the track of another
\* identity or behavior.
C24_TrackCreatedOnceOnDemand ==
    annotations.status = "object" =>
        /\ \A r \in DOMAIN runs :
               LET c == runs[r]
                   slot == <<c.identity, c.behavior>>
               IN /\ slot \notin TrackSlots(c.before) =>
                         /\ DOMAIN c.track.labels = 0 .. (annotations.num_frames - 1)
                         /\ \A f \in DOMAIN c.track.labels : c.track.labels[f] = NONE
                  /\ slot \in TrackSlots(c.before) =>
                         c.track = c.before[c.identity][c.behavior]
                  /\ c.after[c.identity][c.behavior] = c.track
                  /\ TrackSlots(c.after) = TrackSlots(c.before) \cup {slot}
                  /\ \A s \in TrackSlots(c.before) \ {slot} :
                         c.after[s[1]][s[2]] = c.before[s[1]][s[2]]
        /\ \A r1, r2 \in DOMAIN runs :
               (/\ r1 < r2
                /\ runs[r1].identity = runs[r2].identity
                /\ runs[r1].behavior = runs[r2].behavior) =>
                   runs[r2].track.generation = runs[r1].track.generation

\* a track was asked for twice, labelled between the calls, while the object
\* holds the track of another pair
C24_Witness ==
    /\ annotations.status = "object"
    /\ \E r1, r2 \in DOMAIN runs :
           /\ r1 < r2
           /\ runs[r1].identity = runs[r2].identity
           /\ runs[r1].behavior = runs[r2].behavior
           /\ runs[r1].track.labels = UnlabeledTrack
           /\ runs[r2].track.labels # UnlabeledTrack

---------------------------------------------------------------------------
(* Properties of the labeler project *)

\* the calls of the log that handed annotations of the video of call r to
\* the cache before r and that no load with leave_cached=False has consumed
PendingCaches(r) ==
    {r0 \in 1 .. (r - 1) :
        /\ runs[r0].op = "cache_annotations"
        /\ runs[r0].video = runs[r].video
        /\ ~\E r1 \in (r0 + 1) .. (r - 1) :
               /\ runs[r1].op = "load_annotation_track"
               /\ runs[r1].video = runs[r].video
               /\ runs[r1].raised = ""
               /\ ~runs[r1].leave_cached}

\* two VideoLabels objects with the same file name, frame count and labels
SameAnnotations(v, w) ==
    /\ v.filename = w.filename
    /\ v.num_frames = w.num_frames
    /\ TrackSlots(v.identity_labels) = TrackSlots(w.identity_labels)
    /\ \A s \in TrackSlots(v.identity_labels) :
           v.identity_labels[s[1]][s[2]].labels
               = w.identity_labels[s[1]][s[2]].labels

\* C25: load_annotation_track(video) returns the annotations last handed to
\* cache_annotations for the video, if not consumed since, in preference to
\* the annotation file; otherwise the content of the file, or a new empty
\* VideoLabels; leave_cached=False removes the cache entry and
\* leave_cached=True keeps it; save_cached_annotations writes every cached
\* entry to its file and leaves the cache as it was.
C25_CachedAnnotationsPreferred ==
    project.status = "open" =>
        \A r \in DOMAIN runs :
            LET c == runs[r]
            IN /\ (c.op = "load_annotation_track" /\ c.raised = "") =>
                      /\ PendingCaches(r) # {} =>
                             SameAnnotations(c.returned,
                                             runs[Max(PendingCaches(r))].held)
                      /\ PendingCaches(r) = {} =>
                             c.returned =
                                 IF c.video \in DOMAIN c.files_before
                                 THEN load(JsonLoad(c.files_before[c.video].text).value)
                                 ELSE VideoLabels(c.video, VideoFrames)
                      /\ ~c.leave_cached => c.video \notin DOMAIN c.unsaved_after
                      /\ c.leave_cached => c.unsaved_after = c.unsaved_before
               /\ c.op = "save_cached_annotations" =>
                      /\ c.unsaved_after = c.unsaved_before
                      /\ \A v \in DOMAIN c.unsaved_before :
                             /\ v \in DOMAIN c.files_after
                             /\ c.files_after[v] = JsonFile(JsonDump(c.unsaved_before[v]))

---------------------------------------------------------------------------
(* Properties of the predictions *)

\* the last save_predictions call of the log before call r, if any
SavesBefore(r) == {s \in 1 .. (r - 1) : runs[s].op = "save_predictions"}

\* the frames the classifier inferred for an identity
InferredFrames(inferred) ==
    {inferred.frame_indexes[k] : k \in DOMAIN inferred.frame_indexes}

\* C21: after save_predictions, a frame of an identity holds the manual class
\* with probability -1 if it is labelled BEHAVIOR or NOT_BEHAVIOR, else the
\* inferred class and probability if it was inferred, else class -1; a
\* following load_predictions for the behavior returns, per identity, the
\* inferred frames without manual label, in frame order, with the class and
\* probability saved for each.
C21_PredictionRoundTrip ==
    (project.status = "open" /\ "predictions" \in DOMAIN disk) =>
        \A r \in DOMAIN runs :
            LET c == runs[r]
            IN /\ c.op = "save_predictions" =>
                      \A v \in VideoNamesOf(project) :
                      \A i \in 0 .. (project.num_identities[v] - 1) :
                      \A f \in VideoFrameRange :
                          v \in DOMAIN c.prediction_dir[to_safe_name(c.behavior)] /\
                          LET h5 == c.prediction_dir[to_safe_name(c.behavior)][v]
                              manual == ManualLabels(project, v, i, c.behavior)[f]
                              inferred == c.inference[v][ToString(i)]
                          IN IF manual \in {BEHAVIOR, NOT_BEHAVIOR}
                             THEN /\ h5.predicted_class[i][f] = manual
                                  /\ h5.probabilities[i][f] = ManualProbability
                             ELSE IF f \in InferredFrames(inferred)
                             THEN \E k \in DOMAIN inferred.frame_indexes :
                                      /\ inferred.frame_indexes[k] = f
                                      /\ h5.predicted_class[i][f]
                                             = inferred.predictions[k]
                                      /\ h5.probabilities[i][f]
                                             = inferred.probabilities[k]
                             ELSE h5.predicted_class[i][f] = -1
               /\ (/\ c.op = "load_predictions"
                   /\ SavesBefore(r) # {}
                   /\ runs[Max(SavesBefore(r))].behavior = c.behavior) =>
                      LET s == runs[Max(SavesBefore(r))]
                          h5 == s.prediction_dir[to_safe_name(s.behavior)][c.video]
                          got == c.returned
                      IN /\ c.video \in DOMAIN s.prediction_dir[to_safe_name(s.behavior)]
                         /\ DOMAIN got.frame_indexes
                                = {ToString(i) :
                                      i \in 0 .. (project.num_identities[c.video] - 1)}
                         /\ DOMAIN got.predictions = DOMAIN got.frame_indexes
                         /\ DOMAIN got.probabilities = DOMAIN got.frame_indexes
                         /\ \A n \in DOMAIN got.frame_indexes :
                                LET i == IdentityIndex(n)
                                    manual == ManualLabels(project, c.video, i,
                                                           c.behavior)
                                IN /\ got.frame_indexes[n]
                                          = Ascend({f \in InferredFrames(
                                                              s.inference[c.video][n]) :
                                                       manual[f] = NONE})
                                   /\ Len(got.predictions[n])
                                          = Len(got.frame_indexes[n])
                                   /\ Len(got.probabilities[n])
                                          = Len(got.frame_indexes[n])
                                   /\ \A k \in DOMAIN got.frame_indexes[n] :
                                          /\ got.predictions[n][k]
                                                 = h5.predicted_class[i]
                                                       [got.frame_indexes[n][k]]
                                          /\ got.probabilities[n][k]
                                                 = h5.probabilities[i]
                                                       [got.frame_indexes[n][k]]

---------------------------------------------------------------------------
(* Properties of archive_behavior *)

\* the labels dict of the annotation file of a video, empty without a file
SavedLabels(dir, video) ==
    IF video \in DOMAIN dir.annotation_files
    THEN JsonLoad(dir.annotation_files[video].text).value.labels
    ELSE EmptyDict

\* the tracks of a labels dict for behaviors other than the given one, each
\* decoded into its frame-aligned labels
OtherTracks(labels, behavior) ==
    [s \in {<<ident, b>> \in (DOMAIN labels) \X ProjectBehaviors :
               b # behavior /\ b \in DOMAIN labels[ident]} |->
        TrackLabelsLoad(VideoFrames, labels[s[1]][s[2]]).labels]

\* C22: after archive_behavior(b), no annotation file of a video holds labels
\* for b, the tracks of every other behavior are the ones held before, for
\* the same identities; the archive written holds, per video and identity
\* that had labels for b, exactly the blocks removed; the prediction
\* directory and the classifier file of b are gone.
C22_ArchiveTakesOnlyTheBehavior ==
    (project.status = "open" /\ "archive" \in DOMAIN disk) =>
        \A r \in DOMAIN runs :
            LET c == runs[r]
                b == c.behavior
                held(v) == {ident \in DOMAIN SavedLabels(c.before, v) :
                               b \in DOMAIN SavedLabels(c.before, v)[ident]}
                archived == JsonLoad(c.after.archive[<<to_safe_name(b), c.ts>>]).value
            IN /\ \A v \in VideoSet :
                      /\ \A ident \in DOMAIN SavedLabels(c.after, v) :
                             b \notin DOMAIN SavedLabels(c.after, v)[ident]
                      /\ OtherTracks(SavedLabels(c.after, v), b)
                             = OtherTracks(SavedLabels(c.before, v), b)
                      /\ DOMAIN SavedLabels(c.after, v)
                             = DOMAIN SavedLabels(c.before, v)
               /\ DOMAIN archived = {v \in VideoSet : held(v) # {}}
               /\ \A v \in DOMAIN archived :
                      /\ DOMAIN archived[v][b] = held(v)
                      /\ \A ident \in held(v) :
                             archived[v][b][ident]
                                 = SavedLabels(c.before, v)[ident][b]
               /\ to_safe_name(b) \notin DOMAIN c.after.predictions
               /\ to_safe_name(b) \notin c.after.classifiers

\* a behavior was archived that an identity of a video was labelled for,
\* next to a track of another behavior, with predictions and a classifier
\* saved for it
C22_Witness ==
    /\ project.status = "open"
    /\ "archive" \in DOMAIN disk
    /\ \E r \in DOMAIN runs :
           /\ to_safe_name(runs[r].behavior) \in DOMAIN runs[r].before.predictions
           /\ to_safe_name(runs[r].behavior) \in runs[r].before.classifiers
           /\ \E v \in VideoSet :
                  /\ \E ident \in DOMAIN SavedLabels(runs[r].before, v) :
                         runs[r].behavior
                             \in DOMAIN SavedLabels(runs[r].before, v)[ident]
                  /\ OtherTracks(SavedLabels(runs[r].before, v), runs[r].behavior)
                         # EmptyDict

---------------------------------------------------------------------------
(* Properties of MainControlWidget *)

\* C26: get_static_object_features(obj) returns, for a registered object, the
\* value toggle_static_object_features set last for the current behavior, or
\* True when none was set for it; for an unregistered object it returns
\* False, and toggle_static_object_features of an unregistered object changes
\* nothing.
C26_StaticObjectToggleState ==
    widget.status = "widget" =>
        /\ result.op = "get_static_object_features" =>
               LET obj == result.args[1]
                   toggles == result.before.use_static_object_features
               IN result.returned
                      = ReturnValue(IF obj \in DOMAIN toggles
                                    THEN Get(toggles[obj],
                                             current_behavior(result.before), TRUE)
                                    ELSE FALSE)
        /\ (/\ result.op = "toggle_static_object_features"
            /\ result.args[2] \notin
                   DOMAIN result.before.use_static_object_features)
               => result.after = result.before

\* the signals of a name among the ones a call emitted
Emitted(call, signal) ==
    {i \in DOMAIN call.emitted : call.emitted[i].signal = signal}

\* the texts of the items of a combo box
Items(box) == {box.items[i] : i \in DOMAIN box.items}

\* C27: remove_behavior(b) of a behavior of the behavior list completes
\* without raising; afterwards b is neither in the drop-down nor in the
\* behaviors mapping, every other behavior is kept in both, and
\* behavior_list_changed was emitted once, with the remaining behaviors.
C27_RemoveBehaviorRemoves ==
    (/\ widget.status = "widget"
     /\ result.op = "remove_behavior"
     /\ result.args[1] \in DOMAIN result.before.behaviors
     /\ result.args[1] \in Items(result.before.behavior_selection)) =>
        LET b == result.args[1]
        IN /\ result.raised = "none"
           /\ Items(result.after.behavior_selection)
                  = Items(result.before.behavior_selection) \ {b}
           /\ result.after.behaviors
                  = [k \in (DOMAIN result.before.behaviors) \ {b} |->
                        result.before.behaviors[k]]
           /\ Cardinality(Emitted(result, "behavior_list_changed")) = 1
           /\ \A i \in Emitted(result, "behavior_list_changed") :
                  result.emitted[i].payload = result.after.behaviors

\* C28: set_use_balance_labels_checkbox_enabled(False) and
\* set_use_symmetric_checkbox_enabled(False) complete with their check box
\* disabled and unchecked, the setters of use_balance_labels and
\* use_symmetric leave a disabled check box as it is, and neither check box
\* is ever checked while disabled.
C28_DisabledCheckboxesUnchecked ==
    widget.status = "widget" =>
        /\ (result.op = "set_use_balance_labels_checkbox_enabled"
                /\ ~result.args[1])
               => /\ result.raised = "none"
                  /\ widget.use_balace_labels_checkbox = CheckBox(FALSE, FALSE)
        /\ (result.op = "set_use_symmetric_checkbox_enabled"
                /\ ~result.args[1])
               => /\ result.raised = "none"
                  /\ widget.symmetric_behavior_checkbox = CheckBox(FALSE, FALSE)
        /\ (result.op = "use_balance_labels"
                /\ ~result.before.use_balace_labels_checkbox.enabled)
               => result.after = result.before
        /\ (result.op = "use_symmetric"
                /\ ~result.before.symmetric_behavior_checkbox.enabled)
               => result.after = result.before
        /\ ~(/\ ~widget.use_balace_labels_checkbox.enabled
             /\ widget.use_balace_labels_checkbox.checked)
        /\ ~(/\ ~widget.symmetric_behavior_checkbox.enabled
             /\ widget.symmetric_behavior_checkbox.checked)

====
